---- MODULE Spec2Model ----
(***************************************************************************)
(* Chat sessions of vertexai/language_models/_language_models.py:          *)
(* _ChatSessionBase (request building, response parsing, the four send     *)
(* variants) with the list objects that hold message histories modelled    *)
(* as a heap, so that two references to one list are visible.              *)
(***************************************************************************)
EXTENDS Integers, Sequences, FiniteSets, TLC

(* ------------------------------ bounds --------------------------------- *)
MaxCalls == 2
MaxChunks == 2
MaxCallerOps == 1

(* ------------------------- Python values ------------------------------- *)
\* Optional numbers: None, an int or a float (v is the numeric value).
None == [tag |-> "none", v |-> 0]
PyInt(n) == [tag |-> "int", v |-> n]
PyFloat(n) == [tag |-> "float", v |-> n]
\* Optional lists of strings (stop_sequences) and optional strings (context).
NoneList == [tag |-> "none", v |-> <<>>]
PyList(s) == [tag |-> "list", v |-> s]
NoneStr == [tag |-> "none", v |-> ""]
PyStr(s) == [tag |-> "str", v |-> s]

\* Python truthiness of the optional values above.
Truthy(x) ==
    CASE x.tag = "none" -> FALSE
      [] x.tag = "int" -> x.v # 0
      [] x.tag = "float" -> x.v # 0
      [] x.tag = "list" -> x.v # <<>>
      [] x.tag = "str" -> x.v # ""

\* Python "a or b".
PyOr(a, b) == IF Truthy(a) THEN a ELSE b

\* float(x) applied when isinstance(x, int).
CoerceFloat(x) == IF x.tag = "int" THEN PyFloat(x.v) ELSE x

USER_AUTHOR == "user"
MODEL_AUTHOR == "bot"

ChatMessage(content, author) == [content |-> content, author |-> author]

(* ------------------------- grounding sources --------------------------- *)
NoGrounding == [type |-> "none", disable_attribution |-> FALSE, text |-> ""]
WebSearch(disable_attribution) ==
    [type |-> "WEB", disable_attribution |-> disable_attribution, text |-> ""]
InlineContext(inline_context) ==
    [type |-> "INLINE", disable_attribution |-> FALSE, text |-> inline_context]
VertexAISearch(datastore_path, disable_attribution) ==
    [type |-> "VERTEX_AI_SEARCH", disable_attribution |-> disable_attribution,
     text |-> datastore_path]
\* An object that is none of the three grounding sources.
OtherObject == [type |-> "other", disable_attribution |-> FALSE, text |-> ""]

HasGroundingMethod(g) == g.type \in {"WEB", "INLINE", "VERTEX_AI_SEARCH"}

\* Mutant of to_grounding_source_dict: disable_attribution is not carried
\* over.
to_grounding_source_dict_attribution_lost(g) ==
    CASE g.type = "WEB" ->
           [sources |-> <<[type |-> "WEB"]>>, disableAttribution |-> FALSE]
      [] g.type = "INLINE" ->
           [sources |-> <<[type |-> "INLINE", inlineContext |-> g.text]>>]
      [] g.type = "VERTEX_AI_SEARCH" ->
           [sources |-> <<[type |-> "VERTEX_AI_SEARCH",
                           vertexAiSearchDatastore |-> g.text]>>,
            disableAttribution |-> FALSE]

\* _to_grounding_source_dict of the three grounding source classes.
to_grounding_source_dict(g) ==
    CASE g.type = "WEB" ->
           [sources |-> <<[type |-> "WEB"]>>,
            disableAttribution |-> g.disable_attribution]
      [] g.type = "INLINE" ->
           [sources |-> <<[type |-> "INLINE", inlineContext |-> g.text]>>]
      [] g.type = "VERTEX_AI_SEARCH" ->
           [sources |-> <<[type |-> "VERTEX_AI_SEARCH",
                           vertexAiSearchDatastore |-> g.text]>>,
            disableAttribution |-> g.disable_attribution]

(* --------------------------- request builder --------------------------- *)
EmptyDict == [k \in {} |-> 0]
Put(d, k, val) == (k :> val) @@ d
Has(d, k) == k \in DOMAIN d

\* The keyword arguments of a send call that were left out.
NoArgs ==
    [max_output_tokens |-> None, temperature |-> None, top_k |-> None,
     top_p |-> None, stop_sequences |-> NoneList, candidate_count |-> None,
     grounding_source |-> NoGrounding]

\* Merge of one sampling control with its session default, as written for
\* max_output_tokens, top_p, top_k and stop_sequences ("x = x or self._x").
MergeOr(arg, default) == PyOr(arg, default)

\* Merge as written for temperature ("if x is None: x = self._x").
MergeIsNone(arg, default) == IF arg.tag = "none" THEN default ELSE arg

prediction_parameters(self, args) ==
    LET max_output_tokens == MergeOr(args.max_output_tokens, self.max_output_tokens)
        p1 == IF Truthy(max_output_tokens)
              THEN Put(EmptyDict, "maxDecodeSteps", max_output_tokens)
              ELSE EmptyDict
        temperature == MergeIsNone(args.temperature, self.temperature)
        p2 == IF temperature.tag # "none"
              THEN Put(p1, "temperature", CoerceFloat(temperature))
              ELSE p1
        top_p == MergeOr(args.top_p, self.top_p)
        p3 == IF Truthy(top_p) THEN Put(p2, "topP", CoerceFloat(top_p)) ELSE p2
        top_k == MergeOr(args.top_k, self.top_k)
        p4 == IF Truthy(top_k) THEN Put(p3, "topK", top_k) ELSE p3
        stop_sequences == MergeOr(args.stop_sequences, self.stop_sequences)
        p5 == IF Truthy(stop_sequences)
              THEN Put(p4, "stopSequences", stop_sequences.v)
              ELSE p4
        p6 == IF args.candidate_count.tag # "none"
              THEN Put(p5, "candidateCount", args.candidate_count)
              ELSE p5
        p7 == IF args.grounding_source.type # "none"
              THEN Put(p6, "groundingConfig",
                       to_grounding_source_dict(args.grounding_source))
              ELSE p6
    IN  p7

\* Mutant of message_structs: the new turn is put before the past turns.
message_structs_new_turn_first(history, message) ==
    <<[author |-> USER_AUTHOR, content |-> message]>>
    \o [i \in 1..Len(history) |->
           [author |-> history[i].author, content |-> history[i].content]]

\* The {author, content} serialization of the turns followed by the new one.
message_structs(history, message) ==
    [i \in 1..Len(history) |->
        [author |-> history[i].author, content |-> history[i].content]]
    \o <<[author |-> USER_AUTHOR, content |-> message]>>

prediction_instance(self, history, message) ==
    LET i1 == Put(EmptyDict, "messages", message_structs(history, message))
        i2 == IF Truthy(self.context) THEN Put(i1, "context", self.context.v) ELSE i1
        i3 == IF Truthy(self.examples)
              THEN Put(i2, "examples",
                       [j \in 1..Len(self.examples.v) |->
                           [input |-> [content |-> self.examples.v[j].input_text],
                            output |-> [content |-> self.examples.v[j].output_text]]])
              ELSE i2
    IN  i3

NoRequest == [raised |-> "unbuilt", instance |-> EmptyDict, parameters |-> EmptyDict]

\* _ChatSessionBase._prepare_request; history is the content of
\* self._message_history when the request is built.
prepare_request(self, history, message, args) ==
    IF args.grounding_source.type # "none" /\ ~HasGroundingMethod(args.grounding_source)
    THEN [raised |-> "AttributeError", instance |-> EmptyDict, parameters |-> EmptyDict]
    ELSE [raised |-> "none",
          instance |-> prediction_instance(self, history, message),
          parameters |-> prediction_parameters(self, args)]

(* --------------------------- response parser --------------------------- *)
\* Wire scalars of the response: a number sent as an int or as a string.
WireInt(n) == [tag |-> "int", v |-> n]
WireStr(n) == [tag |-> "str", v |-> n]
\* Python int(x) on a wire scalar.
ToInt(x) == x.v

Min(a, b) == IF a < b THEN a ELSE b

\* Mutant of ZipDict: every category gets an entry, a missing score being
\* taken as 0.
ZipDict_padded(categories, scores) ==
    [k \in {categories[i] : i \in 1..Len(categories)} |->
        LET i == CHOOSE j \in 1..Len(categories) : categories[j] = k
        IN  IF i <= Len(scores) THEN scores[i] ELSE 0]

\* dict(zip(categories, scores)): pairs up to the shorter list, a later pair
\* with the same key replaces an earlier one.
ZipDict(categories, scores) ==
    LET n == Min(Len(categories), Len(scores))
        last(k) == CHOOSE i \in 1..n :
                      /\ categories[i] = k
                      /\ \A j \in (i+1)..n : categories[j] # k
    IN  [k \in {categories[i] : i \in 1..n} |-> scores[last(k)]]

\* "x or []" on an optional list.
OrEmpty(x) == IF Truthy(x) THEN x.v ELSE <<>>

NoBlock == [tag |-> "none", citations |-> <<>>, searchQueries |-> <<>>]
Block(citations, searchQueries) ==
    [tag |-> "dict", citations |-> citations, searchQueries |-> searchQueries]
\* Truthiness of a grounding block: None and {} are falsy.
BlockTruthy(b) == b.tag = "dict" /\ (b.citations # <<>> \/ b.searchQueries # <<>>)

parse_citation_from_dict(c) ==
    [start_index |-> IF c.startIndex.tag = "none" THEN None
                     ELSE PyInt(ToInt(c.startIndex)),
     end_index |-> IF c.endIndex.tag = "none" THEN None
                   ELSE PyInt(ToInt(c.endIndex)),
     url |-> c.url]

\* GroundingMetadata.__init__
GroundingMetadata(response) ==
    [citations |-> [i \in 1..Len(response.citations) |->
                       parse_citation_from_dict(response.citations[i])],
     search_queries |-> response.searchQueries]

EmptyGroundingMetadata == [citations |-> <<>>, search_queries |-> <<>>]

\* One iteration of the loop over candidate_idx; raised names the exception
\* the iteration ends in, "none" when it appends a candidate.
CandidateRaises(prediction, candidate_idx) ==
    LET gml == prediction.groundingMetadata
    IN  IF candidate_idx > Len(prediction.safetyAttributes) THEN "IndexError"
        ELSE IF Truthy(gml) /\ candidate_idx > Len(gml.v) THEN "IndexError"
        ELSE "none"

ParseCandidate(prediction, candidate_idx) ==
    LET safety_attributes == prediction.safetyAttributes[candidate_idx]
        gml == prediction.groundingMetadata
        grounding_metadata_dict ==
            IF Truthy(gml) /\ BlockTruthy(gml.v[candidate_idx])
            THEN gml.v[candidate_idx] ELSE NoBlock
    IN  [text |-> prediction.candidates[candidate_idx].content,
         is_blocked |-> safety_attributes.blocked,
         errors |-> [i \in 1..Len(safety_attributes.errors) |->
                        ToInt(safety_attributes.errors[i])],
         safety_attributes |-> ZipDict(OrEmpty(safety_attributes.categories),
                                       OrEmpty(safety_attributes.scores)),
         grounding_metadata |-> GroundingMetadata(grounding_metadata_dict)]

ParseFailure(exc) ==
    [raised |-> exc, text |-> <<>>, is_blocked |-> FALSE, errors |-> <<>>,
     safety_attributes |-> EmptyDict,
     grounding_metadata |-> EmptyGroundingMetadata, candidates |-> <<>>]

\* Mutant of parse_chat_prediction_response: the response is flattened from
\* the last candidate instead of the first.
parse_chat_prediction_response_last_candidate(predictions) ==
    IF Len(predictions) = 0 THEN ParseFailure("IndexError")
    ELSE
    LET prediction == predictions[1]
        candidate_count == Len(prediction.candidates)
        bad == {i \in 1..candidate_count : CandidateRaises(prediction, i) # "none"}
        candidates == [i \in 1..candidate_count |-> ParseCandidate(prediction, i)]
    IN  IF bad # {} THEN ParseFailure("IndexError")
        ELSE IF candidate_count = 0 THEN ParseFailure("IndexError")
        ELSE [raised |-> "none",
              text |-> candidates[candidate_count].text,
              is_blocked |-> candidates[candidate_count].is_blocked,
              errors |-> candidates[candidate_count].errors,
              safety_attributes |-> candidates[candidate_count].safety_attributes,
              grounding_metadata |-> candidates[candidate_count].grounding_metadata,
              candidates |-> candidates]

\* _ChatSessionBase._parse_chat_prediction_response with prediction_idx = 0.
parse_chat_prediction_response(predictions) ==
    IF Len(predictions) = 0 THEN ParseFailure("IndexError")
    ELSE
    LET prediction == predictions[1]
        candidate_count == Len(prediction.candidates)
        bad == {i \in 1..candidate_count : CandidateRaises(prediction, i) # "none"}
        candidates == [i \in 1..candidate_count |-> ParseCandidate(prediction, i)]
    IN  IF bad # {} THEN ParseFailure("IndexError")
        ELSE IF candidate_count = 0 THEN ParseFailure("IndexError")
        ELSE [raised |-> "none",
              text |-> candidates[1].text,
              is_blocked |-> candidates[1].is_blocked,
              errors |-> candidates[1].errors,
              safety_attributes |-> candidates[1].safety_attributes,
              grounding_metadata |-> candidates[1].grounding_metadata,
              candidates |-> candidates]

(* ------------------------- remote responses ---------------------------- *)
SafetyAttributes(blocked, errors, categories, scores) ==
    [blocked |-> blocked, errors |-> errors,
     categories |-> categories, scores |-> scores]
PlainSafety == SafetyAttributes(FALSE, <<>>, PyList(<<"Violent">>), PyList(<<1>>))
StreamSafety == SafetyAttributes(FALSE, <<>>, NoneList, NoneList)
BlockedSafety == SafetyAttributes(TRUE, <<WireStr(250)>>, NoneList, NoneList)

Prediction(candidates, safetyAttributes, groundingMetadata) ==
    [candidates |-> [i \in 1..Len(candidates) |-> [content |-> candidates[i]]],
     safetyAttributes |-> safetyAttributes,
     groundingMetadata |-> groundingMetadata]

\* Texts are sequences of characters, so that chunk texts concatenate.
OneCandidate == Prediction(<< <<"x">> >>, <<PlainSafety>>, NoneList)
TwoCandidates == Prediction(<< <<"y">>, <<"x">> >>, <<PlainSafety, PlainSafety>>, NoneList)
BlockedCandidate == Prediction(<< <<>> >>, <<BlockedSafety>>, NoneList)
NoCandidates == Prediction(<<>>, <<>>, NoneList)
MissingSafety == Prediction(<< <<"x">> >>, <<>>, NoneList)
ChunkX == Prediction(<< <<"x">> >>, <<StreamSafety>>, NoneList)
ChunkY == Prediction(<< <<"y">> >>, <<StreamSafety>>, NoneList)

\* What endpoint.predict / predict_async can do: raise, or return a response.
TransportError == [raised |-> "TransportError", predictions |-> <<>>]
Response(predictions) == [raised |-> "none", predictions |-> predictions]
Outcomes ==
    {TransportError, Response(<<TwoCandidates>>), Response(<<BlockedCandidate>>),
     Response(<<NoCandidates>>)}

(* ------------------------------- state --------------------------------- *)
VARIABLES
    heap,       \* the list objects: list id -> sequence of ChatMessage
    sess,       \* the chat sessions: their fields, _message_history a list id
    calls,      \* the send calls that are under way, by call number
    started,    \* number of send calls made so far
    callerOps,  \* number of caller operations on such a list
    ret,        \* what the last operation did and handed to the caller
    built,      \* the last request built by a direct _prepare_request call
    parsed,     \* the last raw response handed to a parser, and the result
    tuned,      \* the last tuning call: its arguments, remote effects, result
    tuningJob,  \* a tuning job: its pipeline job, the tuned model it holds
    feature,    \* the last Feature constructed: its arguments and outcome
    rest        \* the last call of a REST method stub, step by step

vars == <<heap, sess, calls, started, callerOps, ret, built, parsed, tuned, tuningJob,
          feature, rest>>

Sessions == {"A", "B"}
Null == "null"
CallerList == "callerList"
FreshList(s) == IF s = "A" THEN "listA" ELSE "listB"
ListIds == {CallerList} \cup {FreshList(s) : s \in Sessions}

\* The message of the n-th send call. Messages are opaque to the code; they
\* differ from call to call so that the turns of two calls can be told apart.
MessageOf(n) == <<"m" \o ToString(n)>>

\* Histories a caller may pass to start_chat.
InitialHistories ==
    {<<>>,
     <<ChatMessage(<<"h">>, USER_AUTHOR)>>,
     <<ChatMessage(<<"h">>, USER_AUTHOR), ChatMessage(<<"r">>, MODEL_AUTHOR)>>}

\* Keyword arguments of start_chat: session A is started with every default
\* set, session B with none.
SessionConfig(s) ==
    IF s = "A"
    THEN [context |-> PyStr("terse"),
          examples |-> PyList(<<[input_text |-> "i", output_text |-> "o"]>>),
          max_output_tokens |-> PyInt(5), temperature |-> PyFloat(1),
          top_k |-> PyInt(3), top_p |-> PyInt(1),
          stop_sequences |-> PyList(<<"s">>)]
    ELSE [context |-> NoneStr, examples |-> NoneList, max_output_tokens |-> None,
          temperature |-> None, top_k |-> None, top_p |-> None,
          stop_sequences |-> NoneList]

\* Keyword arguments a caller may pass to send_message / send_message_async.
ArgChoices ==
    {NoArgs,
     [NoArgs EXCEPT !.temperature = PyInt(0), !.top_k = PyInt(0),
                    !.candidate_count = PyInt(2),
                    !.grounding_source = WebSearch(TRUE)]}
\* The streaming variants take neither candidate_count nor grounding_source.
StreamArgChoices == {NoArgs}

\* The i-th chunk of a stream; successive chunks differ.
ChunkAt(i) == IF i % 2 = 1 THEN ChunkX ELSE ChunkY
\* The streams the endpoint can serve, by their number of chunks.
Stream(n) == [i \in 1..n |-> ChunkAt(i)]
StreamLengths == 0..MaxChunks

\* The message_history argument of the two start_chat calls: no caller list,
\* the caller's list for session A only, or the same caller list for both.
StartArgs ==
    {[s \in Sessions |-> Null],
     [s \in Sessions |-> IF s = "A" THEN CallerList ELSE Null],
     [s \in Sessions |-> CallerList]}

NoCall ==
    [kind |-> "none", sess |-> Null, args |-> NoArgs, pc |-> "none",
     request |-> NoRequest, stream |-> <<>>, delivered |-> 0,
     full_response_text |-> <<>>, predicts |-> 0, remote_error |-> "none"]

CallIds == 1..MaxCalls

\* What a step that ends a call, or yields a chunk, hands to the caller:
\* status is "returned", "yielded", "exhausted" (StopIteration), "raised",
\* "cancelled", "closed" or "reiterated" (StopIteration from a generator
\* that had run to its end before); call says which call it was, how far its
\* stream had been read, how many remote predict calls it has issued, what
\* the remote call raised and the grounding source it was given.
Summary(call) ==
    [kind |-> call.kind, sess |-> call.sess, delivered |-> call.delivered,
     total |-> Len(call.stream), predicts |-> call.predicts,
     remote_error |-> call.remote_error,
     grounding_source |-> call.args.grounding_source]
NoRet ==
    [seq |-> 0, status |-> "none", error |-> "none",
     response |-> ParseFailure("unset"), call |-> Summary(NoCall)]
Ret(seq, call, status, error, response) ==
    [seq |-> seq, status |-> status, error |-> error, response |-> response,
     call |-> Summary(call)]

NoBuilt == [sess |-> Null, args |-> NoArgs, request |-> NoRequest]
NoParsed == [parser |-> "none", predictions |-> <<>>, response |-> ParseFailure("unset")]
NoTuned == [op |-> "none"]
NoJob == [state |-> "none"]
NoFeature == [op |-> "none"]
NoRest == [pc |-> "none"]

\* _ChatSessionBase.message_history: the list the property returns.
message_history(self) == self.message_history

\* The content of the session's turn list.
History(s) == heap[message_history(sess[s])]

\* "message_history or []" of _ChatSessionBase.__init__: arg is the list
\* passed by the caller (Null for None), content what that list holds.
init_message_history(arg, content, fresh) ==
    IF arg # Null /\ content # <<>> THEN arg ELSE fresh

ChatSession(s, config, arg, content) ==
    [context |-> config.context, examples |-> config.examples,
     max_output_tokens |-> config.max_output_tokens,
     temperature |-> config.temperature, top_k |-> config.top_k,
     top_p |-> config.top_p,
     message_history |-> init_message_history(arg, content, FreshList(s)),
     stop_sequences |-> config.stop_sequences]

Init ==
    /\ \E h0 \in InitialHistories :
          heap = [l \in ListIds |-> IF l = CallerList THEN h0 ELSE <<>>]
    /\ \E arg \in StartArgs :
          sess = [s \in Sessions |->
                     ChatSession(s, SessionConfig(s), arg[s], heap[CallerList])]
    /\ calls = [c \in CallIds |-> NoCall]
    /\ started = 0
    /\ callerOps = 0
    /\ ret = NoRet
    /\ built = NoBuilt
    /\ parsed = NoParsed
    /\ tuned = NoTuned
    /\ tuningJob = NoJob /\ feature = NoFeature /\ rest = NoRest

(* ------------------------------ commit --------------------------------- *)
\* Mutant of commit: the two turns appended in the wrong order.
commit_swapped(history, message, response_text) ==
    Append(Append(history, ChatMessage(response_text, MODEL_AUTHOR)),
           ChatMessage(message, USER_AUTHOR))

\* Mutant of commit: both turns appended with the author of the first.
commit_same_author(history, message, response_text) ==
    Append(Append(history, ChatMessage(message, USER_AUTHOR)),
           ChatMessage(response_text, USER_AUTHOR))

\* Mutant of commit: the exchange is put in front of the turns.
commit_prepend(history, message, response_text) ==
    <<ChatMessage(message, USER_AUTHOR), ChatMessage(response_text, MODEL_AUTHOR)>>
    \o history

\* Mutant of commit: the exchange of the first call is put before the
\* exchange of the second, whichever of the two ended first.
commit_in_call_order(history, message, response_text) ==
    LET pair == <<ChatMessage(message, USER_AUTHOR),
                  ChatMessage(response_text, MODEL_AUTHOR)>>
        later == {i \in 1..Len(history) :
                     history[i] = ChatMessage(<<"m2">>, USER_AUTHOR)}
    IN  IF message = <<"m1">> /\ later # {}
        THEN LET i == CHOOSE j \in later : \A k \in later : j <= k
             IN  SubSeq(history, 1, i - 1) \o pair \o SubSeq(history, i, Len(history))
        ELSE history \o pair

\* The two appends that end each send variant.
commit(history, message, response_text) ==
    Append(Append(history, ChatMessage(message, USER_AUTHOR)),
           ChatMessage(response_text, MODEL_AUTHOR))

\* c is the number of the next call to be made.
NextId(c) == c = started + 1

SetHistory(s, h) == heap' = [heap EXCEPT ![message_history(sess[s])] = h]

(* --------------------------- send_message ------------------------------ *)
\* Mutant of send_message_body: the USER turn is appended before the remote
\* call, so that a failing call leaves it behind.
send_message_body_early_append(self, history, message, args, outcome) ==
    LET prediction_request == prepare_request(self, history, message, args)
        response_obj == parse_chat_prediction_response(outcome.predictions)
        early == Append(history, ChatMessage(message, USER_AUTHOR))
        failed(exc) == [status |-> "raised", error |-> exc, history |-> early,
                        response |-> ParseFailure(exc), predicts |-> 1]
    IN  IF prediction_request.raised # "none"
        THEN [status |-> "raised", error |-> prediction_request.raised,
              history |-> history,
              response |-> ParseFailure(prediction_request.raised),
              predicts |-> 0]
        ELSE IF outcome.raised # "none" THEN failed(outcome.raised)
        ELSE IF response_obj.raised # "none" THEN failed(response_obj.raised)
        ELSE [status |-> "returned", error |-> "none",
              history |-> Append(early, ChatMessage(response_obj.text, MODEL_AUTHOR)),
              response |-> response_obj, predicts |-> 1]

\* Mutant of send_message_body: the remote call is issued before the
\* failure of the request builder is looked at.
send_message_body_predict_first(self, history, message, args, outcome) ==
    LET prediction_request == prepare_request(self, history, message, args)
        response_obj == parse_chat_prediction_response(outcome.predictions)
        failed(exc) == [status |-> "raised", error |-> exc, history |-> history,
                        response |-> ParseFailure(exc), predicts |-> 1]
    IN  IF prediction_request.raised # "none" THEN failed(prediction_request.raised)
        ELSE IF outcome.raised # "none" THEN failed(outcome.raised)
        ELSE IF response_obj.raised # "none" THEN failed(response_obj.raised)
        ELSE [status |-> "returned", error |-> "none",
              history |-> commit(history, message, response_obj.text),
              response |-> response_obj, predicts |-> 1]

\* Mutant of send_message_body: a remote call that raises is issued a
\* second time before the error is given up on.
send_message_body_retries(self, history, message, args, outcome) ==
    LET prediction_request == prepare_request(self, history, message, args)
        response_obj == parse_chat_prediction_response(outcome.predictions)
        failed(exc, n) == [status |-> "raised", error |-> exc, history |-> history,
                           response |-> ParseFailure(exc), predicts |-> n]
    IN  IF prediction_request.raised # "none"
        THEN failed(prediction_request.raised, 0)
        ELSE IF outcome.raised # "none" THEN failed(outcome.raised, 2)
        ELSE IF response_obj.raised # "none" THEN failed(response_obj.raised, 1)
        ELSE [status |-> "returned", error |-> "none",
              history |-> commit(history, message, response_obj.text),
              response |-> response_obj, predicts |-> 1]

\* Mutant of send_message_body: the USER turn is appended once the remote
\* call has returned, before the response is parsed.
send_message_body_appends_before_parse(self, history, message, args, outcome) ==
    LET prediction_request == prepare_request(self, history, message, args)
        response_obj == parse_chat_prediction_response(outcome.predictions)
        failed(exc, n, h) == [status |-> "raised", error |-> exc, history |-> h,
                              response |-> ParseFailure(exc), predicts |-> n]
    IN  IF prediction_request.raised # "none"
        THEN failed(prediction_request.raised, 0, history)
        ELSE IF outcome.raised # "none" THEN failed(outcome.raised, 1, history)
        ELSE IF response_obj.raised # "none"
        THEN failed(response_obj.raised, 1,
                    Append(history, ChatMessage(message, USER_AUTHOR)))
        ELSE [status |-> "returned", error |-> "none",
              history |-> commit(history, message, response_obj.text),
              response |-> response_obj, predicts |-> 1]

\* Mutant of send_message_body: a response whose first candidate is blocked
\* is returned and no turn is appended for it.
send_message_body_skips_blocked(self, history, message, args, outcome) ==
    LET prediction_request == prepare_request(self, history, message, args)
        response_obj == parse_chat_prediction_response(outcome.predictions)
        failed(exc, n) == [status |-> "raised", error |-> exc, history |-> history,
                           response |-> ParseFailure(exc), predicts |-> n]
    IN  IF prediction_request.raised # "none"
        THEN failed(prediction_request.raised, 0)
        ELSE IF outcome.raised # "none" THEN failed(outcome.raised, 1)
        ELSE IF response_obj.raised # "none" THEN failed(response_obj.raised, 1)
        ELSE [status |-> "returned", error |-> "none",
              history |-> IF response_obj.is_blocked THEN history
                          ELSE commit(history, message, response_obj.text),
              response |-> response_obj, predicts |-> 1]

\* The body of send_message run on a session whose list holds history;
\* outcome is what endpoint.predict does; predicts counts the calls of
\* endpoint.predict.
send_message_body(self, history, message, args, outcome) ==
    LET prediction_request == prepare_request(self, history, message, args)
        response_obj == parse_chat_prediction_response(outcome.predictions)
        failed(exc, n) == [status |-> "raised", error |-> exc, history |-> history,
                           response |-> ParseFailure(exc), predicts |-> n]
    IN  IF prediction_request.raised # "none"
        THEN failed(prediction_request.raised, 0)
        ELSE IF outcome.raised # "none" THEN failed(outcome.raised, 1)
        ELSE IF response_obj.raised # "none" THEN failed(response_obj.raised, 1)
        ELSE [status |-> "returned", error |-> "none",
              history |-> commit(history, message, response_obj.text),
              response |-> response_obj, predicts |-> 1]

send_message(c, s, args, outcome) ==
    /\ NextId(c)
    /\ started' = c
    /\ LET b == send_message_body(sess[s], History(s), MessageOf(c), args, outcome)
       IN  /\ SetHistory(s, b.history)
           /\ ret' = Ret(c, [NoCall EXCEPT !.kind = "sync", !.sess = s,
                                            !.args = args,
                                            !.predicts = b.predicts,
                                            !.remote_error =
                                                IF b.predicts = 0 THEN "none"
                                                ELSE outcome.raised],
                         b.status, b.error, b.response)
    /\ UNCHANGED <<sess, calls, callerOps, built, parsed, tuned, tuningJob, feature, rest>>

(* ------------------------ send_message_async --------------------------- *)
\* Calling the coroutine function creates a coroutine; nothing has run yet.
send_message_async(c, s, args) ==
    /\ NextId(c)
    /\ started' = c
    /\ calls' = [calls EXCEPT ![c] =
                   [NoCall EXCEPT !.kind = "async", !.sess = s, !.args = args,
                                  !.pc = "created"]]
    /\ ret' = NoRet
    /\ UNCHANGED <<heap, sess, callerOps, built, parsed, tuned, tuningJob, feature, rest>>

\* The coroutine runs up to "await predict_async(...)".
async_start_body(self, history, message, call) ==
    LET prediction_request == prepare_request(self, history, message, call.args)
    IN  IF prediction_request.raised # "none"
        THEN [call |-> NoCall, status |-> "raised",
              error |-> prediction_request.raised]
        ELSE [call |-> [call EXCEPT !.pc = "awaiting",
                                    !.request = prediction_request,
                                    !.predicts = @ + 1],
              status |-> "awaiting", error |-> "none"]

\* Mutant of async_start: the values passed to the call are stored as the
\* defaults of the session.
async_start_keeps_overrides(c) ==
    /\ calls[c].kind = "async" /\ calls[c].pc = "created"
    /\ LET s == calls[c].sess
           b == async_start_body(sess[s], History(s), MessageOf(c), calls[c])
       IN  /\ calls' = [calls EXCEPT ![c] = b.call]
           /\ ret' = IF b.status = "raised"
                     THEN Ret(c, calls[c], b.status, b.error, NoRet.response)
                     ELSE NoRet
           /\ sess' = [sess EXCEPT
                         ![s].temperature = MergeIsNone(calls[c].args.temperature, @),
                         ![s].top_k = MergeOr(calls[c].args.top_k, @)]
    /\ UNCHANGED <<heap, started, callerOps, built, parsed, tuned, tuningJob, feature, rest>>

async_start(c) ==
    /\ calls[c].kind = "async" /\ calls[c].pc = "created"
    /\ LET s == calls[c].sess
           b == async_start_body(sess[s], History(s), MessageOf(c), calls[c])
       IN  /\ calls' = [calls EXCEPT ![c] = b.call]
           /\ ret' = IF b.status = "raised"
                     THEN Ret(c, calls[c], b.status, b.error, NoRet.response)
                     ELSE NoRet
    /\ UNCHANGED <<heap, sess, started, callerOps, built, parsed, tuned, tuningJob, feature, rest>>

\* The awaited predict_async resolves with outcome; the coroutine runs on to
\* its end.
async_resolve_body(history, message, outcome) ==
    LET response_obj == parse_chat_prediction_response(outcome.predictions)
        failed(exc) == [status |-> "raised", error |-> exc, history |-> history,
                        response |-> ParseFailure(exc)]
    IN  IF outcome.raised # "none" THEN failed(outcome.raised)
        ELSE IF response_obj.raised # "none" THEN failed(response_obj.raised)
        ELSE [status |-> "returned", error |-> "none",
              history |-> commit(history, message, response_obj.text),
              response |-> response_obj]

async_resolve(c, outcome) ==
    /\ calls[c].kind = "async" /\ calls[c].pc = "awaiting"
    /\ LET s == calls[c].sess
           b == async_resolve_body(History(s), MessageOf(c), outcome)
       IN  /\ calls' = [calls EXCEPT ![c] = NoCall]
           /\ SetHistory(s, b.history)
           /\ ret' = Ret(c, [calls[c] EXCEPT !.remote_error = outcome.raised],
                         b.status, b.error, b.response)
    /\ UNCHANGED <<sess, started, callerOps, built, parsed, tuned, tuningJob, feature, rest>>

\* Mutant of async_cancel_body: the USER turn had been appended before the
\* await, and the cancelled coroutine leaves it behind.
async_cancel_leaves_user_turn(history, message) ==
    Append(history, ChatMessage(message, USER_AUTHOR))

\* The coroutine is cancelled (or closed without ever being awaited): it
\* runs no further.
async_cancel_body(history, message) == history

async_cancel(c) ==
    /\ calls[c].kind = "async" /\ calls[c].pc \in {"created", "awaiting"}
    /\ LET s == calls[c].sess
       IN  /\ calls' = [calls EXCEPT ![c] = NoCall]
           /\ SetHistory(s, async_cancel_body(History(s), MessageOf(c)))
           /\ ret' = Ret(c, calls[c], "cancelled", "none", NoRet.response)
    /\ UNCHANGED <<sess, started, callerOps, built, parsed, tuned, tuningJob, feature, rest>>

(* ----------------- send_message_streaming (and _async) ----------------- *)
\* Mutant of send_message_streaming: the call itself builds the request,
\* from the turns the session holds then, and issues the remote call.
send_message_streaming_eager(c, s, args, kind) ==
    /\ NextId(c)
    /\ started' = c
    /\ calls' = [calls EXCEPT ![c] =
                   [NoCall EXCEPT !.kind = kind, !.sess = s, !.args = args,
                                  !.pc = "created",
                                  !.request = prepare_request(sess[s], History(s),
                                                              MessageOf(c), args),
                                  !.predicts = 1]]
    /\ ret' = NoRet
    /\ UNCHANGED <<heap, sess, callerOps, built, parsed, tuned, tuningJob, feature, rest>>

\* Calling the generator function creates a generator; nothing has run yet.
send_message_streaming(c, s, args, kind) ==
    /\ NextId(c)
    /\ started' = c
    /\ calls' = [calls EXCEPT ![c] =
                   [NoCall EXCEPT !.kind = kind, !.sess = s, !.args = args,
                                  !.pc = "created"]]
    /\ ret' = NoRet
    /\ UNCHANGED <<heap, sess, callerOps, built, parsed, tuned, tuningJob, feature, rest>>

\* The first next(): the generator body runs from its top to the stream
\* call; strm is the stream the endpoint serves.
stream_open(self, history, message, call, strm) ==
    LET prediction_request == prepare_request(self, history, message, call.args)
    IN  IF prediction_request.raised # "none"
        THEN [call EXCEPT !.pc = "failed"]
        ELSE [call EXCEPT !.pc = "opened", !.request = prediction_request,
                          !.stream = strm, !.full_response_text = <<>>,
                          !.predicts = @ + 1]

\* Mutant of stream_step: the text of each chunk replaces the text read so
\* far instead of being added to it.
stream_step_last_chunk(history, message, call, fails) ==
    LET raised(exc) == [call |-> NoCall, ended |-> call, history |-> history,
                        status |-> "raised", error |-> exc,
                        response |-> ParseFailure(exc)]
        yielded(r) == [call EXCEPT !.pc = "yielded", !.delivered = @ + 1,
                                   !.full_response_text = r.text]
    IN  IF fails
        THEN [raised("TransportError") EXCEPT
                 !.ended = [call EXCEPT !.remote_error = "TransportError"]]
        ELSE IF call.delivered < Len(call.stream)
        THEN LET text_generation_response ==
                     parse_chat_prediction_response(<<call.stream[call.delivered + 1]>>)
             IN  IF text_generation_response.raised # "none"
                 THEN raised(text_generation_response.raised)
                 ELSE [call |-> yielded(text_generation_response),
                       ended |-> yielded(text_generation_response),
                       history |-> history,
                       status |-> "yielded", error |-> "none",
                       response |-> text_generation_response]
        ELSE [call |-> NoCall, ended |-> call,
              history |-> commit(history, message, call.full_response_text),
              status |-> "exhausted", error |-> "none",
              response |-> NoRet.response]

\* The generator takes the next item of the stream: the stream raises
\* (fails), or it has a chunk, which is parsed and yielded, or it has ended
\* and the generator runs on through the two appends to its end.
stream_step(history, message, call, fails) ==
    LET raised(exc) == [call |-> NoCall, ended |-> call, history |-> history,
                        status |-> "raised", error |-> exc,
                        response |-> ParseFailure(exc)]
        yielded(r) == [call EXCEPT !.pc = "yielded", !.delivered = @ + 1,
                                   !.full_response_text = @ \o r.text]
    IN  IF fails
        THEN [raised("TransportError") EXCEPT
                 !.ended = [call EXCEPT !.remote_error = "TransportError"]]
        ELSE IF call.delivered < Len(call.stream)
        THEN LET text_generation_response ==
                     parse_chat_prediction_response(<<call.stream[call.delivered + 1]>>)
             IN  IF text_generation_response.raised # "none"
                 THEN raised(text_generation_response.raised)
                 ELSE [call |-> yielded(text_generation_response),
                       ended |-> yielded(text_generation_response),
                       history |-> history,
                       status |-> "yielded", error |-> "none",
                       response |-> text_generation_response]
        ELSE [call |-> NoCall, ended |-> call,
              history |-> commit(history, message, call.full_response_text),
              status |-> "exhausted", error |-> "none",
              response |-> NoRet.response]

\* next() on the generator of send_message_streaming.
stream_next(c, n, fails) ==
    /\ calls[c].kind = "stream" /\ calls[c].pc \in {"created", "yielded"}
    /\ LET s == calls[c].sess
           opened == IF calls[c].pc = "created"
                     THEN stream_open(sess[s], History(s), MessageOf(c),
                                      calls[c], Stream(n))
                     ELSE calls[c]
           b == stream_step(History(s), MessageOf(c), opened, fails)
       IN  IF opened.pc = "failed"
           THEN /\ calls' = [calls EXCEPT ![c] = NoCall]
                /\ ret' = Ret(c, calls[c], "raised", "AttributeError",
                              NoRet.response)
                /\ UNCHANGED heap
           ELSE /\ calls' = [calls EXCEPT ![c] = b.call]
                /\ SetHistory(s, b.history)
                /\ ret' = Ret(c, b.ended, b.status, b.error, b.response)
    /\ UNCHANGED <<sess, started, callerOps, built, parsed, tuned, tuningJob, feature, rest>>

\* __anext__() on the async generator of send_message_streaming_async: the
\* body runs up to the await of the next item of the stream.
astream_anext(c, n) ==
    /\ calls[c].kind = "astream" /\ calls[c].pc \in {"created", "yielded"}
    /\ LET s == calls[c].sess
           opened == IF calls[c].pc = "created"
                     THEN stream_open(sess[s], History(s), MessageOf(c),
                                      calls[c], Stream(n))
                     ELSE calls[c]
       IN  IF opened.pc = "failed"
           THEN /\ calls' = [calls EXCEPT ![c] = NoCall]
                /\ ret' = Ret(c, calls[c], "raised", "AttributeError",
                              NoRet.response)
           ELSE /\ calls' = [calls EXCEPT ![c] = [opened EXCEPT !.pc = "awaiting"]]
                /\ ret' = NoRet
    /\ UNCHANGED <<heap, sess, started, callerOps, built, parsed, tuned, tuningJob, feature, rest>>

\* The awaited item of the async stream arrives.
astream_deliver(c, fails) ==
    /\ calls[c].kind = "astream" /\ calls[c].pc = "awaiting"
    /\ LET s == calls[c].sess
           b == stream_step(History(s), MessageOf(c), calls[c], fails)
       IN  /\ calls' = [calls EXCEPT ![c] = b.call]
           /\ SetHistory(s, b.history)
           /\ ret' = Ret(c, b.ended, b.status, b.error, b.response)
    /\ UNCHANGED <<sess, started, callerOps, built, parsed, tuned, tuningJob, feature, rest>>

\* Mutant of stream_close_body: closing the generator runs the two appends
\* (as a "finally" around the loop would), with the text read so far.
stream_close_commits(history, message, call) ==
    IF call.pc = "created" THEN history
    ELSE commit(history, message, call.full_response_text)

\* The caller discards the (async) generator, or cancels the iteration:
\* the generator is closed where it is suspended and runs no further.
stream_close_body(history, message, call) == history

stream_close(c) ==
    /\ calls[c].kind \in {"stream", "astream"}
    /\ calls[c].pc \in {"created", "yielded", "awaiting"}
    /\ LET s == calls[c].sess
       IN  /\ calls' = [calls EXCEPT ![c] = NoCall]
           /\ SetHistory(s, stream_close_body(History(s), MessageOf(c), calls[c]))
           /\ ret' = Ret(c, calls[c], "closed", "none", NoRet.response)
    /\ UNCHANGED <<sess, started, callerOps, built, parsed, tuned, tuningJob, feature, rest>>

(* ------------------ the caller and message_history --------------------- *)
CallerTurns == {ChatMessage(<<"z">>, MODEL_AUTHOR)}

\* The caller reads the message_history property and appends to the list
\* it returns: session.message_history.append(turn).
caller_append(s, turn) ==
    /\ callerOps < MaxCallerOps
    /\ heap' = [heap EXCEPT ![message_history(sess[s])] = Append(@, turn)]
    /\ callerOps' = callerOps + 1
    /\ ret' = NoRet
    /\ UNCHANGED <<sess, calls, started, built, parsed, tuned, tuningJob, feature, rest>>

\* session.message_history.pop().
caller_pop(s) ==
    /\ callerOps < MaxCallerOps
    /\ History(s) # <<>>
    /\ heap' = [heap EXCEPT ![message_history(sess[s])] =
                   SubSeq(@, 1, Len(@) - 1)]
    /\ callerOps' = callerOps + 1
    /\ ret' = NoRet
    /\ UNCHANGED <<sess, calls, started, built, parsed, tuned, tuningJob, feature, rest>>

(* ---------------------------- specification ---------------------------- *)
SendStep ==
    \/ \E c \in CallIds, s \in Sessions, a \in ArgChoices, o \in Outcomes :
          send_message(c, s, a, o)
    \/ \E c \in CallIds, s \in Sessions, a \in ArgChoices :
          send_message_async(c, s, a)
    \/ \E c \in CallIds : async_start(c)
    \/ \E c \in CallIds, o \in Outcomes : async_resolve(c, o)
    \/ \E c \in CallIds : async_cancel(c)
    \/ \E c \in CallIds, s \in Sessions, a \in StreamArgChoices,
          k \in {"stream", "astream"} : send_message_streaming(c, s, a, k)
    \/ \E c \in CallIds, n \in StreamLengths, f \in BOOLEAN : stream_next(c, n, f)
    \/ \E c \in CallIds, n \in StreamLengths : astream_anext(c, n)
    \/ \E c \in CallIds, f \in BOOLEAN : astream_deliver(c, f)
    \/ \E c \in CallIds : stream_close(c)

CallerStep ==
    \/ \E s \in Sessions, t \in CallerTurns : caller_append(s, t)
    \/ \E s \in Sessions : caller_pop(s)

\* The sessions driven through their send methods only.
Next == SendStep

Spec == Init /\ [][Next]_vars

\* The same, with a caller that also writes to the lists message_history
\* returns.
NextCaller == SendStep \/ CallerStep

\* The sessions are those of start_chat() without a message_history.
InitCaller == Init /\ heap[CallerList] = <<>>

SpecCaller == InitCaller /\ [][NextCaller]_vars

(* --------------------------- kinds of steps ---------------------------- *)
SendKinds == {"sync", "async"}
StreamKinds == {"stream", "astream"}

\* The step ends call number c (it returned, raised, was cancelled, was
\* closed or its stream ran out).
Ends(c) == ret'.seq = c /\ ret'.status # "yielded" /\ (started' = c \/ calls[c] # NoCall)
\* The step is a step of call number c: it makes, advances or ends it.
StepOf(c) ==
    \/ started = c - 1 /\ started' = c
    \/ calls[c] # NoCall /\ calls'[c] # calls[c]
\* The session of call number c, read after a step of the call.
SessOf(c) == IF calls'[c] # NoCall THEN calls'[c].sess ELSE ret'.call.sess
KindOf(c) == IF calls'[c] # NoCall THEN calls'[c].kind ELSE ret'.call.kind

\* The exchange a call commits: its message, then the model's answer.
Exchange(c, text) ==
    <<ChatMessage(MessageOf(c), USER_AUTHOR), ChatMessage(text, MODEL_AUTHOR)>>

(* -------------------------------- C1 ----------------------------------- *)
\* C1: when send_message or send_message_async fails because the remote
\* predict call raises a transport error, no step of that call has changed
\* the session's message_history: every step that makes or starts such a
\* call, and the step in which it raises, leaves the history as it was.
C1_FailedSendLeavesHistory ==
    [][\A c \in CallIds, s \in Sessions :
          (/\ StepOf(c) /\ SessOf(c) = s
           /\ KindOf(c) \in SendKinds
           /\ (Ends(c) => ret'.status = "raised" /\ ret'.error = "TransportError"))
          => History(s)' = History(s)]_vars

\* A send_message and a send_message_async have failed on a transport error
\* on a session that holds turns.
C1_Witness ==
    /\ ret.status = "raised" /\ ret.error = "TransportError"
    /\ ret.call.kind = "async"
    /\ History(ret.call.sess) # <<>>
    /\ started = 2

(* -------------------------------- C2 ----------------------------------- *)
\* C2: a send_message or send_message_async that returns has appended
\* exactly two turns to the session's message_history, after the turns
\* that were there: the message as a USER turn, then the text of the first
\* candidate of the returned response as a MODEL turn; a send that does not
\* return appends nothing (both turns or neither).
C2_AtomicCommit ==
    [][\A c \in CallIds, s \in Sessions :
          (StepOf(c) /\ SessOf(c) = s /\ KindOf(c) \in SendKinds)
          => IF Ends(c) /\ ret'.status = "returned"
             THEN History(s)' =
                     History(s) \o Exchange(c, ret'.response.candidates[1].text)
             ELSE History(s)' = History(s)]_vars

\* A send with two candidates has returned on a session that held turns.
C2_Witness ==
    /\ ret.status = "returned" /\ ret.call.kind \in SendKinds
    /\ Len(ret.response.candidates) = 2
    /\ ret.response.candidates[1].text # ret.response.candidates[2].text
    /\ Len(History(ret.call.sess)) > 2

(* -------------------------------- C3 ----------------------------------- *)
\* C3: when the caller of a streaming send reads only some of the chunks
\* and then discards the iterator, no step of that call has changed the
\* session's message_history: making the generator, every yield of a
\* chunk, and the close leave the history as it was.
C3_AbandonedStreamLeavesHistory ==
    [][\A c \in CallIds, s \in Sessions :
          (/\ StepOf(c) /\ SessOf(c) = s
           /\ KindOf(c) \in StreamKinds
           /\ (Ends(c) => ret'.status = "closed"))
          => History(s)' = History(s)]_vars

\* A stream of two chunks was closed after its first chunk had been read.
C3_Witness ==
    /\ ret.status = "closed" /\ ret.call.kind \in StreamKinds
    /\ ret.call.total >= 2 /\ ret.call.delivered = 1

(* -------------------------------- C4 ----------------------------------- *)
\* The texts of the first n chunks of a stream, concatenated in order.
RECURSIVE ConcatTexts(_, _)
ConcatTexts(strm, n) ==
    IF n = 0 THEN <<>>
    ELSE ConcatTexts(strm, n - 1) \o strm[n].candidates[1].content

\* C4: a streaming send changes the session's message_history in one step
\* only, the one in which the stream runs out after every chunk has been
\* yielded; that step appends the message as a USER turn and then the
\* concatenation, in arrival order, of the texts of all the chunks as a
\* MODEL turn. Every other step of the call leaves the history as it was.
C4_DrainedStreamCommitsOnce ==
    [][\A c \in CallIds, s \in Sessions :
          (StepOf(c) /\ SessOf(c) = s /\ KindOf(c) \in StreamKinds)
          => IF Ends(c) /\ ret'.status = "exhausted"
             THEN /\ calls[c].delivered = Len(calls[c].stream)
                  /\ History(s)' =
                        History(s)
                        \o Exchange(c, ConcatTexts(calls[c].stream, Len(calls[c].stream)))
             ELSE History(s)' = History(s)]_vars

\* A stream of two chunks has been drained.
C4_Witness ==
    /\ ret.status = "exhausted" /\ ret.call.kind \in StreamKinds
    /\ ret.call.total = 2 /\ ret.call.delivered = 2
    /\ Len(History(ret.call.sess)) >= 2

(* -------------------------------- C5 ----------------------------------- *)
\* A turn sequence made of USER turn / MODEL turn pairs.
Paired(h) ==
    /\ Len(h) % 2 = 0
    /\ \A i \in 1..Len(h) :
          h[i].author = IF i % 2 = 1 THEN USER_AUTHOR ELSE MODEL_AUTHOR

\* The step commits an exchange of call c to the list of session s.
Commits(c, s) ==
    /\ StepOf(c) /\ SessOf(c) = s /\ Ends(c)
    /\ ret'.status \in {"returned", "exhausted"}

\* C5 as stated: after any committed exchange the session's turn sequence
\* has even length and is made of USER turn / MODEL turn pairs.
C5_AlwaysPaired ==
    ret.status \in {"returned", "exhausted"} => Paired(History(ret.call.sess))

\* C5: every committed exchange, of any of the four send variants, adds
\* exactly one USER turn immediately followed by one MODEL turn at the end
\* of the turn sequence, so the parity of its length is kept and a sequence
\* made of USER/MODEL pairs before the commit is one after it.
C5_CommitAppendsPair ==
    [][\A c \in CallIds, s \in Sessions :
          Commits(c, s)
          => LET n == Len(History(s))
             IN  /\ Len(History(s)') = n + 2
                 /\ History(s)'[n + 1].author = USER_AUTHOR
                 /\ History(s)'[n + 2].author = MODEL_AUTHOR
                 /\ (Paired(History(s)) => Paired(History(s)'))]_vars

\* Two exchanges have been committed to a session started without turns.
C5_Witness ==
    /\ ret.status \in {"returned", "exhausted"}
    /\ Len(History(ret.call.sess)) = 4
    /\ Paired(History(ret.call.sess))

(* -------------------------------- C6 ----------------------------------- *)
\* C6: when an async send or a streaming send is cancelled or closed, or
\* its stream raises after chunks were yielded, no step of that call has
\* changed the session: every step of such a call that does not end it,
\* and the step in which it is cancelled, closed or raises, leaves the
\* session's message_history and its other fields as they were.
C6_CancelledOrFailedLeavesSession ==
    [][\A c \in CallIds, s \in Sessions :
          (/\ StepOf(c) /\ SessOf(c) = s
           /\ KindOf(c) \in {"async", "stream", "astream"}
           /\ (Ends(c) => ret'.status \in {"cancelled", "closed", "raised"}))
          => History(s)' = History(s) /\ sess' = sess]_vars

\* An async stream has raised a transport error after a chunk was yielded,
\* on a session that holds turns.
C6_Witness ==
    /\ ret.status = "raised" /\ ret.error = "TransportError"
    /\ ret.call.kind = "astream" /\ ret.call.delivered >= 1
    /\ History(ret.call.sess) # <<>>

(* -------------------------------- C7 ----------------------------------- *)
\* The position of the USER turn of call c in h, 0 when h has none.
TurnOf(c, h) ==
    LET at == {i \in 1..Len(h) : h[i] = ChatMessage(MessageOf(c), USER_AUTHOR)}
    IN  IF at = {} THEN 0 ELSE CHOOSE i \in at : \A j \in at : i <= j

\* The exchanges in h are in the order in which their calls were made.
InCallOrder(h) ==
    \A a, b \in CallIds :
        (a < b /\ TurnOf(a, h) # 0 /\ TurnOf(b, h) # 0) => TurnOf(a, h) < TurnOf(b, h)

\* C7 as stated: the exchanges of one session are in message_history in the
\* order in which their send calls were made.
C7_CommittedInCallOrder == \A s \in Sessions : InCallOrder(History(s))

\* C7: exchanges are committed in the order in which their calls complete:
\* a commit puts the call's two turns after every turn already in
\* message_history and moves none of those; a commit by the call made last
\* (so every send_message, which completes within the call) keeps the
\* exchanges in call order.
C7_CommittedInCompletionOrder ==
    [][\A c \in CallIds, s \in Sessions :
          Commits(c, s)
          => LET n == Len(History(s))
             IN  /\ TurnOf(c, History(s)) = 0
                 /\ TurnOf(c, History(s)') = n + 1
                 /\ \A i \in 1..n : History(s)'[i] = History(s)[i]
                 /\ (c = started' /\ InCallOrder(History(s))
                        => InCallOrder(History(s)'))]_vars

\* The exchange of the second call precedes that of the first call, which
\* was made earlier and completed later.
C7_Witness ==
    \E s \in Sessions :
        /\ TurnOf(1, History(s)) # 0 /\ TurnOf(2, History(s)) # 0
        /\ TurnOf(2, History(s)) < TurnOf(1, History(s))

(* -------------------------------- C8 ----------------------------------- *)
\* C8 as stated: no step of a call on one session changes the
\* message_history or any other state of another session.
C8_SessionsShareNothing ==
    [][\A c \in CallIds, s \in Sessions, t \in Sessions :
          (StepOf(c) /\ SessOf(c) = s /\ t # s)
          => History(t)' = History(t) /\ sess'[t] = sess[t]]_vars

(* -------------------------------- C9 ----------------------------------- *)
\* C9 as stated: the turn sequence of a session changes only in the commit
\* step of a send; nothing the caller does with the value of
\* message_history changes it.
C9_OnlyCommitsChangeHistory ==
    [][\A s \in Sessions :
          History(s)' # History(s)
          => \E c \in CallIds, t \in Sessions : Commits(c, t)]_vars

(* ------------------- the request builder on its own -------------------- *)
\* Values of the sampling controls: unset, a zero value, a non-zero value.
MaxOutputTokensValues == {None, PyInt(0), PyInt(5)}
TemperatureValues == {None, PyInt(0), PyFloat(1)}
TopKValues == {None, PyInt(0), PyInt(3)}
TopPValues == {None, PyInt(0), PyInt(1)}
StopSequencesValues == {NoneList, PyList(<<>>), PyList(<<"s">>)}

\* start_chat keyword arguments: each sampling control unset or set.
ReqSessionConfigs ==
    {[context |-> NoneStr, examples |-> NoneList, max_output_tokens |-> mot,
      temperature |-> t, top_k |-> tk, top_p |-> tp, stop_sequences |-> ss] :
        mot \in {None, PyInt(7)}, t \in {None, PyFloat(2)},
        tk \in {None, PyInt(9)}, tp \in {None, PyFloat(2)},
        ss \in {NoneList, PyList(<<"d">>)}}

\* _prepare_request keyword arguments.
ReqArgs ==
    {[NoArgs EXCEPT !.max_output_tokens = mot, !.temperature = t, !.top_k = tk,
                    !.top_p = tp, !.stop_sequences = ss] :
        mot \in MaxOutputTokensValues, t \in TemperatureValues,
        tk \in TopKValues, tp \in TopPValues, ss \in StopSequencesValues}

InitReq ==
    /\ heap = [l \in ListIds |-> <<>>]
    /\ \E cfg \in ReqSessionConfigs :
          sess = [s \in Sessions |-> ChatSession(s, cfg, Null, <<>>)]
    /\ calls = [c \in CallIds |-> NoCall]
    /\ started = 0
    /\ callerOps = 0
    /\ ret = NoRet
    /\ built = NoBuilt
    /\ parsed = NoParsed
    /\ tuned = NoTuned
    /\ tuningJob = NoJob /\ feature = NoFeature /\ rest = NoRest

\* session._prepare_request(message, **args), as count_tokens and the four
\* send variants call it.
prepare_request_call(s, args) ==
    /\ built' = [sess |-> s, args |-> args,
                 request |-> prepare_request(sess[s], History(s), MessageOf(1), args)]
    /\ UNCHANGED <<heap, sess, calls, started, callerOps, ret, parsed, tuned, tuningJob, feature, rest>>

NextReq == \E args \in ReqArgs : prepare_request_call("A", args)

SpecReq == InitReq /\ [][NextReq]_vars

(* -------------------------------- C10 ---------------------------------- *)
\* The value a sampling control takes under the three-level precedence:
\* the call's value when one is passed, else the session default.
Precedence(arg, default) == IF arg.tag # "none" THEN arg ELSE default

\* Key k of the parameters holds what value e stands for: absent when e is
\* unset, else present with e (w is e as it is written into the map).
Holds(parameters, k, e, w) ==
    IF e.tag = "none" THEN ~Has(parameters, k)
    ELSE Has(parameters, k) /\ parameters[k] = w

\* C10 as stated: in a built chat request each sampling control follows the
\* three-level precedence; any value passed to the call, 0 and the empty
\* list included, wins over the session default, and the key is absent only
\* when neither the call nor the session specifies the control.
C10_ThreeLevelPrecedence ==
    built # NoBuilt =>
        LET self == sess[built.sess]
            a == built.args
            p == built.request.parameters
            mot == Precedence(a.max_output_tokens, self.max_output_tokens)
            t == Precedence(a.temperature, self.temperature)
            tk == Precedence(a.top_k, self.top_k)
            tp == Precedence(a.top_p, self.top_p)
            ss == Precedence(a.stop_sequences, self.stop_sequences)
        IN  /\ Holds(p, "maxDecodeSteps", mot, mot)
            /\ Holds(p, "temperature", t, CoerceFloat(t))
            /\ Holds(p, "topK", tk, tk)
            /\ Holds(p, "topP", tp, CoerceFloat(tp))
            /\ Holds(p, "stopSequences", ss, ss.v)

(* ------------------- the text generation request builder --------------- *)
\* Optional dictionaries (logit_bias).
PyDict(d) == [tag |-> "dict", v |-> d]

\* The keyword arguments of _create_text_generation_prediction_request that
\* were left out.
NoTextArgs ==
    [max_output_tokens |-> None, temperature |-> None, top_k |-> None,
     top_p |-> None, stop_sequences |-> NoneList, candidate_count |-> None,
     grounding_source |-> NoGrounding, logprobs |-> None,
     presence_penalty |-> None, frequency_penalty |-> None, logit_bias |-> None]

text_prediction_parameters(args) ==
    LET p1 == IF Truthy(args.max_output_tokens)
              THEN Put(EmptyDict, "maxDecodeSteps", args.max_output_tokens)
              ELSE EmptyDict
        p2 == IF args.temperature.tag # "none"
              THEN Put(p1, "temperature", CoerceFloat(args.temperature))
              ELSE p1
        p3 == IF Truthy(args.top_p)
              THEN Put(p2, "topP", CoerceFloat(args.top_p))
              ELSE p2
        p4 == IF Truthy(args.top_k) THEN Put(p3, "topK", args.top_k) ELSE p3
        p5 == IF Truthy(args.stop_sequences)
              THEN Put(p4, "stopSequences", args.stop_sequences.v)
              ELSE p4
        p6 == IF args.candidate_count.tag # "none"
              THEN Put(p5, "candidateCount", args.candidate_count)
              ELSE p5
        p7 == IF args.grounding_source.type # "none"
              THEN Put(p6, "groundingConfig",
                       to_grounding_source_dict(args.grounding_source))
              ELSE p6
        p8 == IF args.logprobs.tag # "none"
              THEN Put(p7, "logprobs", args.logprobs)
              ELSE p7
        p9 == IF args.presence_penalty.tag # "none"
              THEN Put(p8, "presencePenalty", args.presence_penalty)
              ELSE p8
        p10 == IF args.frequency_penalty.tag # "none"
               THEN Put(p9, "frequencyPenalty", args.frequency_penalty)
               ELSE p9
        p11 == IF args.logit_bias.tag # "none"
               THEN Put(p10, "logitBias", args.logit_bias.v)
               ELSE p10
    IN  p11

\* _create_text_generation_prediction_request(prompt, **args).
create_text_generation_prediction_request(prompt, args) ==
    IF args.grounding_source.type # "none" /\ ~HasGroundingMethod(args.grounding_source)
    THEN [raised |-> "AttributeError", instance |-> EmptyDict, parameters |-> EmptyDict]
    ELSE [raised |-> "none",
          instance |-> Put(EmptyDict, "content", prompt),
          parameters |-> text_prediction_parameters(args)]

(* --------------------- both request builders, called ------------------- *)
\* Grounding sources a caller may pass, an object of another type included.
GroundingChoices ==
    {NoGrounding, WebSearch(TRUE), WebSearch(FALSE), InlineContext("ctx"),
     VertexAISearch("ds", TRUE), OtherObject}

\* The five sampling controls all unset, all zero or empty, all non-zero.
SamplingChoices ==
    {NoArgs,
     [NoArgs EXCEPT !.max_output_tokens = PyInt(0), !.temperature = PyInt(0),
                    !.top_k = PyInt(0), !.top_p = PyInt(0),
                    !.stop_sequences = PyList(<<>>)],
     [NoArgs EXCEPT !.max_output_tokens = PyInt(5), !.temperature = PyInt(1),
                    !.top_k = PyInt(3), !.top_p = PyInt(1),
                    !.stop_sequences = PyList(<<"s">>)]}

\* Keyword arguments of _prepare_request.
ChatBuildArgs ==
    {[a EXCEPT !.candidate_count = cc, !.grounding_source = g] :
        a \in SamplingChoices, cc \in {None, PyInt(2)}, g \in GroundingChoices}

\* Keyword arguments of _create_text_generation_prediction_request: every
\* combination of the sampling controls, and the other parameters with each
\* grounding source.
TextBuildArgs ==
    {[NoTextArgs EXCEPT !.max_output_tokens = a.max_output_tokens,
                        !.temperature = a.temperature, !.top_k = a.top_k,
                        !.top_p = a.top_p, !.stop_sequences = a.stop_sequences] :
        a \in ReqArgs}
    \cup
    {[NoTextArgs EXCEPT !.candidate_count = cc, !.grounding_source = g,
                        !.logprobs = x, !.presence_penalty = CoerceFloat(x),
                        !.frequency_penalty = CoerceFloat(x),
                        !.logit_bias = IF x.tag = "none" THEN None
                                       ELSE PyDict(EmptyDict)] :
        cc \in {None, PyInt(0), PyInt(2)}, g \in GroundingChoices,
        x \in {None, PyInt(0)}}

\* session._prepare_request(message, **args) on one of the started sessions.
chat_request_built(s, args) ==
    /\ built' = [sess |-> s, args |-> args,
                 request |-> prepare_request(sess[s], History(s), MessageOf(1), args)]
    /\ UNCHANGED <<heap, sess, calls, started, callerOps, ret, parsed, tuned, tuningJob, feature, rest>>

\* _create_text_generation_prediction_request(prompt, **args); the builder
\* belongs to no session.
text_request_built(args) ==
    /\ built' = [sess |-> Null, args |-> args,
                 request |-> create_text_generation_prediction_request(<<"p">>, args)]
    /\ UNCHANGED <<heap, sess, calls, started, callerOps, ret, parsed, tuned, tuningJob, feature, rest>>

NextBuild ==
    \/ \E s \in Sessions, a \in ChatBuildArgs : chat_request_built(s, a)
    \/ \E a \in TextBuildArgs : text_request_built(a)

\* Keyword arguments of start_chat for the builders: session A with every
\* default set; session B with none, or with an empty context and an empty
\* list of examples.
BuildSessionConfig(s, empties) ==
    IF s = "B" /\ empties
    THEN [SessionConfig(s) EXCEPT !.context = PyStr(""), !.examples = PyList(<<>>)]
    ELSE SessionConfig(s)

InitBuild ==
    /\ \E h0 \in InitialHistories :
          heap = [l \in ListIds |-> IF l = CallerList THEN h0 ELSE <<>>]
    /\ \E arg \in StartArgs, empties \in BOOLEAN :
          sess = [s \in Sessions |->
                     ChatSession(s, BuildSessionConfig(s, empties), arg[s],
                                 heap[CallerList])]
    /\ calls = [c \in CallIds |-> NoCall]
    /\ started = 0
    /\ callerOps = 0
    /\ ret = NoRet
    /\ built = NoBuilt
    /\ parsed = NoParsed
    /\ tuned = NoTuned
    /\ tuningJob = NoJob /\ feature = NoFeature /\ rest = NoRest

\* The sessions as start_chat leaves them, and the two builders called.
SpecBuild == InitBuild /\ [][NextBuild]_vars

BuiltByChat == built.sess \in Sessions
BuiltByText == built.sess = Null /\ built # NoBuilt

(* -------------------------------- C11 ---------------------------------- *)
\* Key k is absent when e is unset (None) and present with e when e is set.
KeyIffSet(parameters, k, e, w) ==
    IF e.tag = "none" THEN ~Has(parameters, k)
    ELSE Has(parameters, k) /\ parameters[k] = w

\* C11 as stated: in a request built by either builder, every generation
\* parameter left unset has no key in the parameter map, and every parameter
\* set to a value, zero values included, has its key with the value, integer
\* temperature and top_p coerced to floating point.
C11_KeyPresentIffSet ==
    /\ BuiltByText /\ built.request.raised = "none" =>
          LET a == built.args
              p == built.request.parameters
          IN  /\ KeyIffSet(p, "maxDecodeSteps", a.max_output_tokens, a.max_output_tokens)
              /\ KeyIffSet(p, "temperature", a.temperature, CoerceFloat(a.temperature))
              /\ KeyIffSet(p, "topP", a.top_p, CoerceFloat(a.top_p))
              /\ KeyIffSet(p, "topK", a.top_k, a.top_k)
              /\ KeyIffSet(p, "stopSequences", a.stop_sequences, a.stop_sequences.v)
              /\ KeyIffSet(p, "candidateCount", a.candidate_count, a.candidate_count)
              /\ KeyIffSet(p, "logprobs", a.logprobs, a.logprobs)
              /\ KeyIffSet(p, "presencePenalty", a.presence_penalty, a.presence_penalty)
              /\ KeyIffSet(p, "frequencyPenalty", a.frequency_penalty, a.frequency_penalty)
              /\ KeyIffSet(p, "logitBias", a.logit_bias, a.logit_bias.v)
    /\ BuiltByChat /\ built.request.raised = "none" =>
          LET self == sess[built.sess]
              a == built.args
              p == built.request.parameters
              mot == Precedence(a.max_output_tokens, self.max_output_tokens)
              t == Precedence(a.temperature, self.temperature)
              tk == Precedence(a.top_k, self.top_k)
              tp == Precedence(a.top_p, self.top_p)
              ss == Precedence(a.stop_sequences, self.stop_sequences)
          IN  /\ KeyIffSet(p, "maxDecodeSteps", mot, mot)
              /\ KeyIffSet(p, "temperature", t, CoerceFloat(t))
              /\ KeyIffSet(p, "topP", tp, CoerceFloat(tp))
              /\ KeyIffSet(p, "topK", tk, tk)
              /\ KeyIffSet(p, "stopSequences", ss, ss.v)
              /\ KeyIffSet(p, "candidateCount", a.candidate_count, a.candidate_count)

(* -------------------------------- C12 ---------------------------------- *)
\* C12: a chat request built for message m on a session with history h has
\* instance.messages equal to the {author, content} form of every turn of h
\* in order, followed by exactly one entry {author = USER, content = m}; the
\* instance has a context key exactly when the session context is a
\* non-empty string and an examples key exactly when the session has at
\* least one example, and no other key.
C12_HistoryFolded ==
    BuiltByChat /\ built.request.raised = "none" =>
        LET self == sess[built.sess]
            h == History(built.sess)
            i == built.request.instance
            n == Len(h)
        IN  /\ Has(i, "messages")
            /\ Len(i["messages"]) = n + 1
            /\ \A j \in 1..n :
                  i["messages"][j] = [author |-> h[j].author, content |-> h[j].content]
            /\ i["messages"][n + 1] = [author |-> USER_AUTHOR, content |-> MessageOf(1)]
            /\ Has(i, "context") <=> (self.context.tag = "str" /\ self.context.v # "")
            /\ Has(i, "context") => i["context"] = self.context.v
            /\ Has(i, "examples") <=> (self.examples.tag = "list" /\ self.examples.v # <<>>)
            /\ Has(i, "examples") => Len(i["examples"]) = Len(self.examples.v)
            /\ DOMAIN i \subseteq {"messages", "context", "examples"}

\* A request was built on a session whose history holds two turns and that
\* has a context and examples.
C12_Witness ==
    /\ BuiltByChat /\ built.request.raised = "none"
    /\ Len(History(built.sess)) = 2
    /\ Has(built.request.instance, "context")
    /\ Has(built.request.instance, "examples")

(* -------------------------------- C13 ---------------------------------- *)
\* C13: in a request built by either builder, the parameters hold no
\* groundingConfig key when no grounding source was passed, and otherwise
\* groundingConfig is the serialization of the source that was passed: one
\* source entry with the type and its inline context or datastore path and,
\* for WebSearch and VertexAISearch, disableAttribution as passed; in
\* particular WebSearch(disable_attribution=True) gives
\* {sources: [{type: WEB}], disableAttribution: True}.
C13_GroundingConfigIsSerialization ==
    built # NoBuilt /\ built.request.raised = "none" =>
        LET g == built.args.grounding_source
            p == built.request.parameters
        IN  /\ g = NoGrounding <=> ~Has(p, "groundingConfig")
            /\ g = WebSearch(TRUE) =>
                  p["groundingConfig"] =
                      [sources |-> <<[type |-> "WEB"]>>, disableAttribution |-> TRUE]
            /\ g.type = "WEB" =>
                  /\ p["groundingConfig"].sources = <<[type |-> "WEB"]>>
                  /\ p["groundingConfig"].disableAttribution = g.disable_attribution
            /\ g.type = "INLINE" =>
                  /\ p["groundingConfig"].sources =
                        <<[type |-> "INLINE", inlineContext |-> g.text]>>
                  /\ DOMAIN p["groundingConfig"] = {"sources"}
            /\ g.type = "VERTEX_AI_SEARCH" =>
                  /\ p["groundingConfig"].sources =
                        <<[type |-> "VERTEX_AI_SEARCH",
                           vertexAiSearchDatastore |-> g.text]>>
                  /\ p["groundingConfig"].disableAttribution = g.disable_attribution

\* A chat request was built with WebSearch(disable_attribution=True).
C13_Witness ==
    /\ BuiltByChat /\ built.request.raised = "none"
    /\ built.args.grounding_source = WebSearch(TRUE)
    /\ Has(built.request.parameters, "groundingConfig")

(* ------------------ sends carrying a grounding source ------------------ *)
\* Keyword arguments of send_message / send_message_async with each
\* grounding source.
GroundedArgChoices == {[NoArgs EXCEPT !.grounding_source = g] : g \in GroundingChoices}

NextGrounded ==
    \/ \E c \in CallIds, s \in Sessions, a \in GroundedArgChoices, o \in Outcomes :
          send_message(c, s, a, o)
    \/ \E c \in CallIds, s \in Sessions, a \in GroundedArgChoices :
          send_message_async(c, s, a)
    \/ \E c \in CallIds : async_start(c)
    \/ \E c \in CallIds, o \in Outcomes : async_resolve(c, o)
    \/ \E c \in CallIds : async_cancel(c)

SpecGrounded == Init /\ [][NextGrounded]_vars

\* The grounding source call number c was given, read over a step of it.
GroundingOf(c) ==
    IF calls[c] # NoCall THEN calls[c].args.grounding_source
    ELSE IF calls'[c] # NoCall THEN calls'[c].args.grounding_source
    ELSE ret'.call.grounding_source

(* -------------------------------- C14 ---------------------------------- *)
\* What C14 says of a send given an object that is none of the three
\* grounding sources, with exc the exception that is raised: no step of the
\* call changes the lists or the sessions, the call never gets to its remote
\* call, and it ends by raising exc with no remote call issued.
WrongGroundingFailsFast(exc) ==
    \A c \in CallIds :
        (StepOf(c) /\ KindOf(c) \in SendKinds /\ GroundingOf(c) = OtherObject) =>
            /\ heap' = heap /\ sess' = sess
            /\ calls'[c] # NoCall => calls'[c].pc = "created" /\ calls'[c].predicts = 0
            /\ (Ends(c) /\ ret'.status # "cancelled") =>
                  /\ ret'.status = "raised" /\ ret'.error = exc
                  /\ ret'.call.predicts = 0 /\ ret'.call.remote_error = "none"

\* C14 as stated: a grounding source that is not a WebSearch, VertexAISearch
\* or InlineContext makes the send fail with a type error (TypeError), before
\* any remote call and without changing session state.
C14_WrongGroundingTypeError == [][WrongGroundingFailsFast("TypeError")]_vars

\* C14, amended: such a send fails with the AttributeError of the missing
\* _to_grounding_source_dict method, raised by the request builder when the
\* body of the send runs, before any remote call and without changing
\* session state.
C14_WrongGroundingAttributeError == [][WrongGroundingFailsFast("AttributeError")]_vars

\* A send_message_async given such an object has raised on a session that
\* holds turns.
C14_Witness ==
    /\ ret.status = "raised" /\ ret.error = "AttributeError"
    /\ ret.call.kind = "async"
    /\ ret.call.grounding_source = OtherObject
    /\ History(ret.call.sess) # <<>>

(* ------------------- the text generation response parsers -------------- *)
\* A key that the prediction dictionary does not hold (NoBlock is a key
\* that holds null).
AbsentBlock == [tag |-> "absent", citations |-> <<>>, searchQueries |-> <<>>]

\* A prediction of a text generation model; safetyAttributes is the
\* dictionary prediction.get("safetyAttributes", {}) evaluates to.
TextPrediction(content, safetyAttributes, groundingMetadata) ==
    [content |-> content, safetyAttributes |-> safetyAttributes,
     groundingMetadata |-> groundingMetadata]

\* _parse_text_generation_model_response
parse_text_generation_model_response(predictions, prediction_idx) ==
    LET prediction == predictions[prediction_idx]
        safety_attributes_dict == prediction.safetyAttributes
        grounding_metadata_dict ==
            IF prediction.groundingMetadata.tag = "absent"
            THEN Block(<<>>, <<>>) ELSE prediction.groundingMetadata
    IN  IF grounding_metadata_dict.tag = "none"
        THEN [ParseFailure("AttributeError") EXCEPT !.text = prediction.content]
        ELSE [raised |-> "none",
              text |-> prediction.content,
              is_blocked |-> safety_attributes_dict.blocked,
              errors |-> [i \in 1..Len(safety_attributes_dict.errors) |->
                             ToInt(safety_attributes_dict.errors[i])],
              safety_attributes |->
                  ZipDict(OrEmpty(safety_attributes_dict.categories),
                          OrEmpty(safety_attributes_dict.scores)),
              grounding_metadata |-> GroundingMetadata(grounding_metadata_dict)]

\* _parse_text_generation_model_multi_candidate_response
parse_text_generation_model_multi_candidate_response(predictions) ==
    LET prediction_count == Len(predictions)
        parsed_all == [i \in 1..prediction_count |->
                          parse_text_generation_model_response(predictions, i)]
        candidates == [i \in 1..prediction_count |->
                          [f \in DOMAIN parsed_all[i] \ {"raised", "candidates"} |->
                              parsed_all[i][f]]]
        bad == {i \in 1..prediction_count : parsed_all[i].raised # "none"}
    IN  IF bad # {} THEN ParseFailure("AttributeError")
        ELSE IF prediction_count = 0 THEN ParseFailure("IndexError")
        ELSE [raised |-> "none",
              text |-> candidates[1].text,
              is_blocked |-> candidates[1].is_blocked,
              errors |-> candidates[1].errors,
              safety_attributes |-> candidates[1].safety_attributes,
              grounding_metadata |-> candidates[1].grounding_metadata,
              candidates |-> candidates]

(* ------------------------- the parsers, called ------------------------- *)
Citation == [startIndex |-> WireStr(1), endIndex |-> None, url |-> "u"]

\* Safety attributes as the service sends them: categories and scores both
\* present, both absent or null, or only one of them present.
SafetyChoices ==
    {PlainSafety, BlockedSafety,
     SafetyAttributes(FALSE, <<WireInt(1)>>, PyList(<<"Violent", "Toxic">>), NoneList),
     SafetyAttributes(FALSE, <<>>, NoneList, PyList(<<1>>))}

\* Grounding blocks of a chat response: null, {} or a block with content.
BlockChoices == {NoBlock, Block(<<>>, <<>>), Block(<<Citation>>, <<"q">>)}

SeqsUpTo(S, n) == UNION {[1..k -> S] : k \in 0..n}

CandidateTexts == << <<"y">>, <<"x">> >>

\* Raw chat predictions: up to two candidates, a safetyAttributes list and a
\* groundingMetadata list (or none) of any length up to two.
ChatPredictionChoices ==
    {Prediction(SubSeq(CandidateTexts, 1, n), sa, gm) :
        n \in 0..Len(CandidateTexts),
        sa \in SeqsUpTo(SafetyChoices, Len(CandidateTexts)),
        gm \in {NoneList} \cup {PyList(b) : b \in SeqsUpTo(BlockChoices, Len(CandidateTexts))}}

\* Raw text generation responses: up to two predictions.
TextPredictionChoices ==
    SeqsUpTo({TextPrediction(t, sa, gm) :
                 t \in {<<"x">>}, sa \in SafetyChoices \ {BlockedSafety},
                 gm \in BlockChoices \cup {AbsentBlock}}
             \cup {TextPrediction(<<>>, BlockedSafety, AbsentBlock)},
             Len(CandidateTexts))

chat_response_parsed(prediction) ==
    /\ parsed' = [parser |-> "chat", predictions |-> <<prediction>>,
                  response |-> parse_chat_prediction_response(<<prediction>>)]
    /\ UNCHANGED <<heap, sess, calls, started, callerOps, ret, built, tuned, tuningJob, feature, rest>>

text_response_parsed(predictions) ==
    /\ parsed' = [parser |-> "text", predictions |-> predictions,
                  response |->
                      parse_text_generation_model_multi_candidate_response(predictions)]
    /\ UNCHANGED <<heap, sess, calls, started, callerOps, ret, built, tuned, tuningJob, feature, rest>>

NextParse ==
    \/ \E p \in ChatPredictionChoices : chat_response_parsed(p)
    \/ \E p \in TextPredictionChoices : text_response_parsed(p)

\* The parsers are functions of the raw response alone; the sessions are
\* those of start_chat() without a message_history.
InitParse == Init /\ heap[CallerList] = <<>>

SpecParse == InitParse /\ [][NextParse]_vars

\* The texts of the candidates of the raw response, in its order.
RawTexts ==
    IF parsed.parser = "chat"
    THEN [i \in 1..Len(parsed.predictions[1].candidates) |->
             parsed.predictions[1].candidates[i].content]
    ELSE [i \in 1..Len(parsed.predictions) |-> parsed.predictions[i].content]

Parsed == parsed.parser # "none" /\ parsed.response.raised = "none"

(* -------------------------------- C15 ---------------------------------- *)
\* C15: every multi-candidate response r that either parser produces has
\* at least one candidate and r.text, r.is_blocked, r.errors,
\* r.safety_attributes and r.grounding_metadata equal to those of
\* r.candidates[0]; r.candidates has one entry per candidate of the raw
\* response, in the order of the raw response.
C15_FlattenedFromFirstCandidate ==
    Parsed =>
        LET r == parsed.response
        IN  /\ Len(r.candidates) >= 1
            /\ r.text = r.candidates[1].text
            /\ r.is_blocked = r.candidates[1].is_blocked
            /\ r.errors = r.candidates[1].errors
            /\ r.safety_attributes = r.candidates[1].safety_attributes
            /\ r.grounding_metadata = r.candidates[1].grounding_metadata
            /\ Len(r.candidates) = Len(RawTexts)
            /\ \A i \in 1..Len(RawTexts) : r.candidates[i].text = RawTexts[i]

\* A chat response of two candidates that differ in text, safety attributes
\* and grounding has been parsed.
C15_Witness ==
    /\ Parsed /\ parsed.parser = "chat"
    /\ Len(parsed.response.candidates) = 2
    /\ parsed.response.candidates[1].text # parsed.response.candidates[2].text
    /\ parsed.response.candidates[1].safety_attributes
          # parsed.response.candidates[2].safety_attributes
    /\ parsed.response.candidates[1].grounding_metadata
          # parsed.response.candidates[2].grounding_metadata

\* The raw safety attributes of candidate i of the response handed to the
\* parser, and how many of them the response holds.
RawSafety(i) ==
    IF parsed.parser = "chat" THEN parsed.predictions[1].safetyAttributes[i]
    ELSE parsed.predictions[i].safetyAttributes
RawSafetyCount ==
    IF parsed.parser = "chat" THEN Len(parsed.predictions[1].safetyAttributes)
    ELSE Len(parsed.predictions)
\* The raw response carries no grounding metadata at all.
RawUngrounded ==
    IF parsed.parser = "chat" THEN parsed.predictions[1].groundingMetadata = NoneList
    ELSE \A i \in 1..Len(parsed.predictions) :
            parsed.predictions[i].groundingMetadata = AbsentBlock

(* -------------------------------- C16 ---------------------------------- *)
\* C16: the safety_attributes map of a parsed candidate pairs the categories
\* with the scores of its raw safety attributes, position by position; when
\* the categories or the scores are absent or null the map is empty; and a
\* response that has a candidate, safety attributes for every candidate and
\* no grounding metadata is parsed without an error whatever its categories
\* and scores are.
C16_SafetyAttributesZipped ==
    /\ Parsed =>
          \A i \in 1..Len(parsed.response.candidates) :
              LET raw == RawSafety(i)
                  m == parsed.response.candidates[i].safety_attributes
              IN  IF raw.categories.tag = "none" \/ raw.scores.tag = "none"
                  THEN m = EmptyDict
                  ELSE /\ \A j \in 1..Len(raw.categories.v) :
                             j <= Len(raw.scores.v) =>
                                 /\ raw.categories.v[j] \in DOMAIN m
                                 /\ m[raw.categories.v[j]] = raw.scores.v[j]
                       /\ \A k \in DOMAIN m :
                             \E j \in 1..Len(raw.categories.v) :
                                 j <= Len(raw.scores.v) /\ raw.categories.v[j] = k
    /\ (/\ parsed.parser # "none"
        /\ Len(RawTexts) >= 1 /\ RawSafetyCount >= Len(RawTexts)
        /\ RawUngrounded)
       => parsed.response.raised = "none"

\* A chat response whose first candidate has categories but no scores, and
\* whose second has both, has been parsed.
C16_Witness ==
    /\ Parsed /\ parsed.parser = "chat"
    /\ Len(parsed.response.candidates) = 2
    /\ RawSafety(1).categories.tag = "list" /\ RawSafety(1).scores.tag = "none"
    /\ RawSafety(2).categories.tag = "list" /\ RawSafety(2).scores.tag = "list"
    /\ parsed.response.safety_attributes = EmptyDict
    /\ parsed.response.candidates[2].safety_attributes # EmptyDict

(* -------------------------------- C17 ---------------------------------- *)
\* C17 as stated: when a chat response that has a candidate and safety
\* attributes for every candidate is parsed, the parser does not raise, and
\* every candidate whose grounding block is null or missing, the grounding
\* list being shorter than the candidate list included, gets an empty
\* GroundingMetadata.
C17_MissingBlockGivesEmptyMetadata ==
    (/\ parsed.parser = "chat"
     /\ Len(RawTexts) >= 1 /\ RawSafetyCount >= Len(RawTexts))
    => LET gml == parsed.predictions[1].groundingMetadata
       IN  /\ parsed.response.raised = "none"
           /\ \A i \in 1..Len(RawTexts) :
                 (gml.tag = "none" \/ i > Len(gml.v) \/ gml.v[i] = NoBlock)
                 => parsed.response.candidates[i].grounding_metadata
                       = EmptyGroundingMetadata

(* ------------------------- the tuning operations ----------------------- *)
_ACCELERATOR_TYPES == {"TPU", "GPU"}
\* Two of the supported locations, enough to tell them from the rest.
_SUPPORTED_LOCATIONS == {"us-central1", "europe-west4"}
_TUNING_LOCATIONS == _SUPPORTED_LOCATIONS
_TUNED_MODEL_LOCATIONS == _SUPPORTED_LOCATIONS
_SUPPORTED_RLHF_MODELS == {"text-bison@001", "chat-bison@001"}
_UNUSED_RLHF_EVAL_SPECS ==
    {"evaluation_interval", "enable_early_stopping", "enable_checkpoint_selection"}

\* Values of the tuning arguments. "none" is None; training and evaluation
\* data are a URI string, a DataFrame or a value of another type; a
\* Tensorboard is a resource name string or a Tensorboard object, either
\* with the location it lies in, or a value of another type.
GcsUri == "gs://bucket/data.jsonl"
LocalPath == "data.jsonl"
DataFrame == "<DataFrame>"
NotAStr == "<list>"
IsStr(x) == x \in {GcsUri, LocalPath}
StartsWithGs(x) == x = GcsUri

NoTensorboard == [kind |-> "none", location |-> "none"]
Tensorboard(kind, location) == [kind |-> kind, location |-> location]

TuningEvaluationSpec(evaluation_data, evaluation_interval, enable_early_stopping, enable_checkpoint_selection, tensorboard) ==
    [tag |-> "spec", evaluation_data |-> evaluation_data,
     evaluation_interval |-> evaluation_interval,
     enable_early_stopping |-> enable_early_stopping,
     enable_checkpoint_selection |-> enable_checkpoint_selection,
     tensorboard |-> tensorboard]
NoEvaluationSpec ==
    [tag |-> "none", evaluation_data |-> "none", evaluation_interval |-> "none",
     enable_early_stopping |-> "none", enable_checkpoint_selection |-> "none",
     tensorboard |-> NoTensorboard]

\* The outcome of a tuning call: the exception it raised ("none" when it
\* returned a job), the argument the exception is about, and the remote
\* operations it had issued by then, in order.
TuneRaised(exc, about, effects) == [raised |-> exc, about |-> about, effects |-> effects]
TuneReturned(effects) == [raised |-> "none", about |-> "none", effects |-> effects]

\* _get_tensorboard_resource_id_from_evaluation_spec: the exception it
\* raises, "none" when it returns.
get_tensorboard_resource_id_from_evaluation_spec(eval_spec, tuning_job_location) ==
    CASE eval_spec.tensorboard.kind = "none" -> "none"
      [] eval_spec.tensorboard.kind \in {"object", "str"} ->
           IF eval_spec.tensorboard.location # tuning_job_location
           THEN "ValueError" ELSE "none"
      [] OTHER -> "TypeError"

\* _maybe_upload_training_data: a DataFrame is uploaded to Cloud Storage.
maybe_upload_training_data(training_data, about) ==
    IF IsStr(training_data) THEN TuneReturned(<<>>)
    ELSE IF training_data = DataFrame THEN TuneReturned(<<"upload">>)
    ELSE TuneRaised("TypeError", about, <<>>)

\* _launch_tuning_job: the upload, then the pipeline job is submitted.
launch_tuning_job(a) ==
    LET up == maybe_upload_training_data(a.training_data, "training_data")
    IN  IF up.raised # "none" THEN up
        ELSE TuneReturned(up.effects \o <<"submit">>)

\* Mutant of _tune_model: the location of the tuned model is looked at
\* after the tuning job has been launched.
_tune_model_launches_first(a) ==
    IF a.tuning_job_location \notin _TUNING_LOCATIONS
    THEN TuneRaised("ValueError", "tuning_job_location", <<>>)
    ELSE IF a.tuning_pipeline_uri = "none"
    THEN TuneRaised("RuntimeError", "model", <<"get_model_info">>)
    ELSE LET pipeline_job == launch_tuning_job(a)
         IN  IF pipeline_job.raised = "none"
                /\ a.tuned_model_location \notin _TUNED_MODEL_LOCATIONS
             THEN TuneRaised("ValueError", "tuned_model_location",
                             <<"get_model_info">> \o pipeline_job.effects)
             ELSE [pipeline_job EXCEPT !.effects = <<"get_model_info">> \o @]

\* _TunableModelMixin._tune_model
_tune_model(a) ==
    IF a.tuning_job_location \notin _TUNING_LOCATIONS
    THEN TuneRaised("ValueError", "tuning_job_location", <<>>)
    ELSE IF a.tuned_model_location \notin _TUNED_MODEL_LOCATIONS
    THEN TuneRaised("ValueError", "tuned_model_location", <<>>)
    ELSE IF a.tuning_pipeline_uri = "none"
    THEN TuneRaised("RuntimeError", "model", <<"get_model_info">>)
    ELSE LET pipeline_job == launch_tuning_job(a)
         IN  [pipeline_job EXCEPT !.effects = <<"get_model_info">> \o @]

\* _TunableModelMixin.tune_model
tune_model(a) ==
    LET eval_spec == a.tuning_evaluation_spec
        tb == get_tensorboard_resource_id_from_evaluation_spec(
                  eval_spec, a.tuning_job_location)
    IN  IF eval_spec.tag # "none" /\ eval_spec.evaluation_data # "none"
           /\ ~IsStr(eval_spec.evaluation_data)
        THEN TuneRaised("TypeError", "evaluation_data", <<>>)
        ELSE IF eval_spec.tag # "none" /\ eval_spec.evaluation_data # "none"
                /\ ~StartsWithGs(eval_spec.evaluation_data)
        THEN TuneRaised("ValueError", "evaluation_data", <<>>)
        ELSE IF eval_spec.tag # "none" /\ tb # "none"
        THEN TuneRaised(tb, "tensorboard", <<>>)
        ELSE IF a.accelerator_type # "none" /\ a.accelerator_type \notin _ACCELERATOR_TYPES
        THEN TuneRaised("ValueError", "accelerator_type", <<>>)
        ELSE _tune_model(a)

\* _TunableChatModelMixin.tune_model
chat_tune_model(a) ==
    LET eval_spec == a.tuning_evaluation_spec
    IN  IF eval_spec.tag # "none"
           /\ \E f \in {"evaluation_data", "evaluation_interval",
                        "enable_early_stopping", "enable_checkpoint_selection"} :
                 eval_spec[f] # "none"
        THEN TuneRaised("AttributeError", "tuning_evaluation_spec", <<>>)
        ELSE tune_model(a)

\* _check_unused_rlhf_eval_specs: does it raise AttributeError?
check_unused_rlhf_eval_specs(tuning_evaluation_spec) ==
    \E unused_key \in _UNUSED_RLHF_EVAL_SPECS : tuning_evaluation_spec[unused_key] # "none"

\* _RlhfTunableModelMixin._tune_model_rlhf with _launch_rlhf_tuning_job
_tune_model_rlhf(location, model_id, effects) ==
    IF location \notin _TUNING_LOCATIONS
    THEN TuneRaised("ValueError", "tuning_job_location", effects)
    ELSE IF model_id \notin _SUPPORTED_RLHF_MODELS
    THEN TuneRaised("ValueError", "model", effects)
    ELSE TuneReturned(effects \o <<"submit">>)

\* _RlhfTunableModelMixin.tune_model_rlhf: the two data sets are uploaded
\* where they are DataFrames, and the accelerator type is looked at after.
tune_model_rlhf(a) ==
    LET tuning_job_location == IF a.tuning_job_location # "none"
                               THEN a.tuning_job_location ELSE a.global_config_location
        eval_spec == a.tuning_evaluation_spec
        eval_dataset == eval_spec.evaluation_data
        tb == get_tensorboard_resource_id_from_evaluation_spec(
                  eval_spec, tuning_job_location)
        prompt == maybe_upload_training_data(a.prompt_data, "prompt_data")
        preference == maybe_upload_training_data(a.preference_data, "preference_data")
    IN  IF eval_spec.tag # "none" /\ check_unused_rlhf_eval_specs(eval_spec)
        THEN TuneRaised("AttributeError", "tuning_evaluation_spec", <<>>)
        ELSE IF eval_spec.tag # "none" /\ eval_dataset # "none" /\ ~IsStr(eval_dataset)
        THEN TuneRaised("AttributeError", "evaluation_data", <<>>)
        ELSE IF eval_spec.tag # "none" /\ eval_dataset # "none"
                /\ ~StartsWithGs(eval_dataset)
        THEN TuneRaised("ValueError", "evaluation_data", <<>>)
        ELSE IF eval_spec.tag # "none" /\ tb # "none"
        THEN TuneRaised(tb, "tensorboard", <<>>)
        ELSE IF prompt.raised # "none" THEN prompt
        ELSE IF preference.raised # "none"
        THEN [preference EXCEPT !.effects = prompt.effects]
        ELSE IF a.accelerator_type # "none" /\ a.accelerator_type \notin _ACCELERATOR_TYPES
        THEN TuneRaised("ValueError", "accelerator_type",
                        prompt.effects \o preference.effects)
        ELSE _tune_model_rlhf(tuning_job_location, a.model_id,
                              prompt.effects \o preference.effects)

\* The arguments the tuning calls are made with.
DataChoices == {GcsUri, DataFrame, NotAStr}
AcceleratorChoices == {"none", "TPU", "CPU"}
LocationChoices == {"none", "us-central1", "mars-north1"}
EvaluationSpecChoices ==
    {NoEvaluationSpec,
     TuningEvaluationSpec("none", "none", "none", "none", NoTensorboard),
     TuningEvaluationSpec(GcsUri, "none", "none", "none", NoTensorboard),
     TuningEvaluationSpec(LocalPath, "none", "none", "none", NoTensorboard),
     TuningEvaluationSpec(NotAStr, "none", "none", "none", NoTensorboard),
     TuningEvaluationSpec("none", "20", "none", "none", NoTensorboard),
     TuningEvaluationSpec("none", "none", "True", "none", NoTensorboard),
     TuningEvaluationSpec("none", "none", "none", "False", NoTensorboard),
     TuningEvaluationSpec("none", "none", "none", "none",
                          Tensorboard("str", "us-central1")),
     TuningEvaluationSpec("none", "none", "none", "none",
                          Tensorboard("object", "europe-west4")),
     TuningEvaluationSpec("none", "none", "none", "none",
                          Tensorboard("other", "none")),
     TuningEvaluationSpec(GcsUri, "none", "none", "none",
                          Tensorboard("str", "us-central1"))}
TuneModelArgs ==
    [training_data : DataChoices, accelerator_type : AcceleratorChoices,
     tuning_job_location : LocationChoices,
     tuned_model_location : LocationChoices,
     tuning_pipeline_uri : {"none", "https://pipeline"},
     tuning_evaluation_spec : EvaluationSpecChoices]
TuneModelRlhfArgs ==
    [prompt_data : DataChoices, preference_data : DataChoices,
     accelerator_type : AcceleratorChoices,
     tuning_job_location : LocationChoices,
     global_config_location : {"us-central1", "mars-north1"},
     model_id : {"text-bison@001", "text-bison@002"},
     tuning_evaluation_spec : EvaluationSpecChoices]

Pending(method, args) == [op |-> "pending", method |-> method, args |-> args]
Tuned(op, args, result) == [op |-> op, method |-> op, args |-> args, result |-> result]

tune_model_called ==
    /\ tuned.op = "pending" /\ tuned.method = "tune_model"
    /\ tuned' = Tuned("tune_model", tuned.args, tune_model(tuned.args))
    /\ UNCHANGED <<heap, sess, calls, started, callerOps, ret, built, parsed, tuningJob, feature, rest>>

chat_tune_model_called ==
    /\ tuned.op = "pending" /\ tuned.method = "tune_model"
    /\ tuned' = Tuned("chat_tune_model", tuned.args, chat_tune_model(tuned.args))
    /\ UNCHANGED <<heap, sess, calls, started, callerOps, ret, built, parsed, tuningJob, feature, rest>>

tune_model_rlhf_called ==
    /\ tuned.op = "pending" /\ tuned.method = "tune_model_rlhf"
    /\ tuned' = Tuned("tune_model_rlhf", tuned.args, tune_model_rlhf(tuned.args))
    /\ UNCHANGED <<heap, sess, calls, started, callerOps, ret, built, parsed, tuningJob, feature, rest>>

NextTune ==
    \/ tune_model_called
    \/ chat_tune_model_called
    \/ tune_model_rlhf_called

\* A model before any chat session has spoken, and one tuning call to make.
InitTune ==
    /\ heap = [l \in ListIds |-> <<>>]
    /\ \E arg \in StartArgs :
          sess = [s \in Sessions |->
                     ChatSession(s, SessionConfig(s), arg[s], heap[CallerList])]
    /\ calls = [c \in CallIds |-> NoCall]
    /\ started = 0
    /\ callerOps = 0
    /\ ret = NoRet
    /\ built = NoBuilt
    /\ parsed = NoParsed
    /\ tuned \in {Pending("tune_model", a) : a \in TuneModelArgs}
                 \cup {Pending("tune_model_rlhf", a) : a \in TuneModelRlhfArgs}
    /\ tuningJob = NoJob /\ feature = NoFeature /\ rest = NoRest

SpecTune == InitTune /\ [][NextTune]_vars

\* The failures that are about the values of the parameters alone.
ValidationFailure(t) ==
    /\ t.op \notin {"none", "pending"}
    /\ t.result.raised # "none"
    /\ t.result.about \in {"accelerator_type", "tuning_evaluation_spec", "evaluation_data"}

\* C18: a tuning call that ends in a parameter validation failure (accelerator
\* type, evaluation spec fields, evaluation data URI) has issued no remote
\* operation: no upload, no model lookup, no pipeline job submission.
C18_ValidationBeforeSideEffects ==
    ValidationFailure(tuned) => tuned.result.effects = <<>>

(* ------------------- iterating a drained stream again ------------------ *)
\* Mutant of drained_stream_next: iterating the drained stream again runs
\* the body of send_message_streaming anew, as an iterable that is not a
\* generator would: a further remote call, whose stream is empty here, and
\* a further pair of turns.
drained_stream_next_restarts(history, message, ended) ==
    [history |-> commit(history, message, <<>>),
     predicts |-> ended.predicts + 1,
     response |-> NoRet.response]

\* next() on the generator of send_message_streaming after it has run to
\* its end: send_message_streaming is a generator function, so what it
\* returned is a generator, whose body does not run again; next() raises
\* StopIteration at once.
drained_stream_next(history, message, ended) ==
    [history |-> history,
     predicts |-> ended.predicts,
     response |-> NoRet.response]

\* The caller iterates again the stream it has just drained.
stream_next_drained(c) ==
    /\ calls[c] = NoCall
    /\ ret.seq = c /\ ret.call.kind = "stream"
    /\ ret.status \in {"exhausted", "reiterated"}
    /\ LET s == ret.call.sess
           b == drained_stream_next(History(s), MessageOf(c), ret.call)
       IN  /\ SetHistory(s, b.history)
           /\ ret' = [ret EXCEPT !.status = "reiterated", !.response = b.response,
                                 !.call.predicts = b.predicts]
    /\ UNCHANGED <<sess, calls, started, callerOps, built, parsed, tuned, tuningJob, feature, rest>>

\* The streaming sends, with a caller that iterates drained streams again.
NextDrain ==
    \/ \E c \in CallIds, s \in Sessions, a \in StreamArgChoices,
          k \in {"stream", "astream"} : send_message_streaming(c, s, a, k)
    \/ \E c \in CallIds, n \in StreamLengths, f \in BOOLEAN : stream_next(c, n, f)
    \/ \E c \in CallIds, n \in StreamLengths : astream_anext(c, n)
    \/ \E c \in CallIds, f \in BOOLEAN : astream_deliver(c, f)
    \/ \E c \in CallIds : stream_close(c)
    \/ \E c \in CallIds : stream_next_drained(c)

SpecDrain == Init /\ [][NextDrain]_vars

\* C19: iterating again a stream of send_message_streaming that has been
\* drained yields no partial response, issues no remote call and leaves
\* every message history as it is, so the call has committed one exchange
\* and no more.
C19_DrainedStreamIsExhausted ==
    [][(ret.status \in {"exhausted", "reiterated"} /\ ret'.status = "reiterated")
       => /\ ret'.response = NoRet.response
          /\ ret'.call.predicts = ret.call.predicts
          /\ ret'.call.delivered = ret.call.delivered
          /\ heap' = heap
          /\ calls' = calls]_vars

\* A stream of two chunks was drained, which committed its exchange, and
\* has been iterated again.
C19_Witness ==
    /\ ret.status = "reiterated" /\ ret.call.kind = "stream"
    /\ ret.call.total = 2 /\ ret.call.delivered = 2 /\ ret.call.predicts = 1
    /\ Len(History(ret.call.sess)) >= 2

(* ----------------------- _TextGenerationModel.predict ------------------ *)
\* The body of predict: the request is built, endpoint.predict is called
\* once, and what it returns is parsed; predicts counts the calls of
\* endpoint.predict.
predict_outcome(prediction_request, outcome, response) ==
    IF prediction_request.raised # "none"
    THEN [status |-> "raised", error |-> prediction_request.raised,
          response |-> ParseFailure(prediction_request.raised), predicts |-> 0]
    ELSE IF outcome.raised # "none"
    THEN [status |-> "raised", error |-> outcome.raised,
          response |-> ParseFailure(outcome.raised), predicts |-> 1]
    ELSE IF response.raised # "none"
    THEN [status |-> "raised", error |-> response.raised,
          response |-> ParseFailure(response.raised), predicts |-> 1]
    ELSE [status |-> "returned", error |-> "none", response |-> response,
          predicts |-> 1]

predict_body(prompt, args, outcome) ==
    predict_outcome(
        create_text_generation_prediction_request(prompt, args),
        outcome,
        parse_text_generation_model_multi_candidate_response(outcome.predictions))

\* model.predict(prompt, **args): the model holds no state of its own, and
\* no session is touched.
predict(args, outcome) ==
    /\ LET b == predict_body(<<"p">>, args, outcome)
       IN  ret' = Ret(0, [NoCall EXCEPT !.kind = "predict", !.args = args,
                                        !.predicts = b.predicts,
                                        !.remote_error =
                                            IF b.predicts = 0 THEN "none"
                                            ELSE outcome.raised],
                      b.status, b.error, b.response)
    /\ UNCHANGED <<heap, sess, calls, started, callerOps, built, parsed, tuned, tuningJob, feature, rest>>

\* What predict is called with, and what the endpoint of the text model
\* does: it raises, or returns one blocked prediction, or none at all.
PredictArgChoices ==
    {[NoTextArgs EXCEPT !.grounding_source = g] : g \in {NoGrounding, OtherObject}}
TextOutcomes ==
    {TransportError,
     Response(<<TextPrediction(<<>>, BlockedSafety, AbsentBlock)>>),
     Response(<<>>)}

\* The sends that make one remote call, on the sessions and on the model.
NextSend ==
    \/ \E c \in CallIds, s \in Sessions, a \in GroundedArgChoices, o \in Outcomes :
          send_message(c, s, a, o)
    \/ \E c \in CallIds, s \in Sessions, a \in GroundedArgChoices :
          send_message_async(c, s, a)
    \/ \E c \in CallIds : async_start(c)
    \/ \E c \in CallIds, o \in Outcomes : async_resolve(c, o)
    \/ \E c \in CallIds : async_cancel(c)
    \/ \E a \in PredictArgChoices, o \in TextOutcomes : predict(a, o)

\* The sessions are those of start_chat() without a message_history.
InitSend == Init /\ heap[CallerList] = <<>>

SpecSend == InitSend /\ [][NextSend]_vars

(* -------------------------------- C20 ---------------------------------- *)
\* C20: a send_message, send_message_async or predict call never issues its
\* remote predict call twice: a call that has returned or raised has issued
\* it exactly once, unless building the request raised, in which case it
\* issued none; a call under way has issued at most one. When the remote
\* call raises, the call raises that same error.
C20_OneRemoteCallErrorUnmodified ==
    /\ \A c \in CallIds : calls[c].predicts <= 1
    /\ (ret.call.kind \in {"sync", "async", "predict"}
        /\ ret.status \in {"returned", "raised"})
       => /\ ret.call.predicts <= 1
          /\ ret.call.predicts = 0
                => ret.status = "raised" /\ ret.error = "AttributeError"
                   /\ ret.call.grounding_source = OtherObject
          /\ ret.status = "returned"
                => ret.call.predicts = 1 /\ ret.call.remote_error = "none"
          /\ ret.call.remote_error # "none"
                => /\ ret.status = "raised"
                   /\ ret.error = ret.call.remote_error
                   /\ ret.call.predicts = 1

\* A send_message whose remote call raised a transport error has raised it,
\* after one remote call, on a session that holds turns.
C20_Witness ==
    /\ ret.call.kind = "sync" /\ ret.status = "raised"
    /\ ret.call.remote_error = "TransportError" /\ ret.error = "TransportError"
    /\ ret.call.predicts = 1
    /\ History(ret.call.sess) # <<>>

(* ------------------------------ count_tokens --------------------------- *)
\* What the count_tokens endpoint method does: it returns counts, or raises.
CountOutcomes == {"counted", "TransportError"}

\* Mutant of count_tokens_body: only the provided message is counted, the
\* turns of the session are left out of the instance.
count_tokens_body_message_only(self, history, message, outcome) ==
    LET count_tokens_request == prepare_request(self, <<>>, message, NoArgs)
    IN  [instances |-> <<count_tokens_request.instance>>,
         status |-> IF outcome = "counted" THEN "returned" ELSE "raised",
         error |-> IF outcome = "counted" THEN "none" ELSE outcome,
         history |-> history, predicts |-> 0]

\* The body of count_tokens: the request is built as for a send without
\* keyword arguments, and its instance alone is sent to the count_tokens
\* method of the endpoint; endpoint.predict is not called, and nothing is
\* appended.
count_tokens_body(self, history, message, outcome) ==
    LET count_tokens_request == prepare_request(self, history, message, NoArgs)
    IN  [instances |-> <<count_tokens_request.instance>>,
         status |-> IF outcome = "counted" THEN "returned" ELSE "raised",
         error |-> IF outcome = "counted" THEN "none" ELSE outcome,
         history |-> history, predicts |-> 0]

\* session.count_tokens(message); built records the instance that was sent.
count_tokens(s, message, outcome) ==
    /\ LET b == count_tokens_body(sess[s], History(s), message, outcome)
       IN  /\ SetHistory(s, b.history)
           /\ built' = [sess |-> s, args |-> NoArgs,
                        request |-> [raised |-> "none", instance |-> b.instances[1],
                                     parameters |-> EmptyDict]]
           /\ ret' = Ret(0, [NoCall EXCEPT !.kind = "count_tokens", !.sess = s,
                                           !.predicts = b.predicts],
                         b.status, b.error, NoRet.response)
    /\ UNCHANGED <<sess, calls, started, callerOps, parsed, tuned, tuningJob, feature, rest>>

CountedMessage == <<"q">>

\* Sessions that send, and count the tokens of a message in between.
NextCount ==
    \/ \E c \in CallIds, s \in Sessions, a \in ArgChoices, o \in Outcomes :
          send_message(c, s, a, o)
    \/ \E s \in Sessions, o \in CountOutcomes : count_tokens(s, CountedMessage, o)

SpecCount == Init /\ [][NextCount]_vars

\* The step is a count_tokens call on session s.
CountsTokens(s) == ret'.call.kind = "count_tokens" /\ ret'.call.sess = s /\ built'.sess = s

\* C21: count_tokens(message) on a session sends the instance a
\* send_message(message) would build there: the turns of message_history in
\* order, then the message as a USER turn, with the context and the examples
\* of the session; it makes no predict call and leaves every message
\* history and every session as they were.
C21_CountTokensCountsHistoryAndChangesNothing ==
    [][\A s \in Sessions :
          CountsTokens(s) =>
             LET instance == built'.request.instance
             IN  /\ instance = prepare_request(sess[s], History(s), CountedMessage,
                                               NoArgs).instance
                 /\ Len(instance.messages) = Len(History(s)) + 1
                 /\ \A i \in 1..Len(History(s)) :
                       instance.messages[i].content = History(s)[i].content
                 /\ instance.messages[Len(History(s)) + 1] =
                       [author |-> USER_AUTHOR, content |-> CountedMessage]
                 /\ Has(instance, "context") <=> Truthy(sess[s].context)
                 /\ Has(instance, "examples") <=> Truthy(sess[s].examples)
                 /\ ret'.call.predicts = 0
                 /\ heap' = heap /\ sess' = sess /\ calls' = calls]_vars

\* The tokens of a message have been counted on a session that has a
\* context, examples and four committed turns.
C21_Witness ==
    /\ ret.call.kind = "count_tokens" /\ ret.status = "returned"
    /\ Len(History(ret.call.sess)) = 4
    /\ Len(built.request.instance.messages) = 5
    /\ Has(built.request.instance, "context")
    /\ Has(built.request.instance, "examples")

(* ------------------------------- Feature ------------------------------- *)
\* A resource name is its sequence of "/"-separated segments; a bare ID is
\* one segment.
FeaturePath(project, location, feature_group_id, feature_id) ==
    <<"projects", project, "locations", location,
      "featureGroups", feature_group_id, "features", feature_id>>
FeatureId(feature_id) == <<feature_id>>
IsFeaturePath(name) ==
    /\ Len(name) = 8
    /\ name[1] = "projects" /\ name[3] = "locations"
    /\ name[5] = "featureGroups" /\ name[7] = "features"

\* Mutant of FeatureInit: a feature_group_id given along with a path is
\* ignored instead of being refused.
FeatureInit_path_wins(name, feature_group_id, project, location) ==
    IF IsFeaturePath(name)
    THEN [raised |-> "none", resource_name |-> name, get_feature |-> <<name>>]
    ELSE IF feature_group_id = "none"
    THEN [raised |-> "ValueError", resource_name |-> <<>>, get_feature |-> <<>>]
    ELSE LET path == FeaturePath(project, location, feature_group_id, name[1])
         IN  [raised |-> "none", resource_name |-> path, get_feature |-> <<path>>]

\* Feature(name, feature_group_id) under aiplatform.init(project, location):
\* the resource name is the path given, or is put together from the
\* feature group and the ID; get_feature lists the names get_feature was
\* called with.
FeatureInit(name, feature_group_id, project, location) ==
    IF IsFeaturePath(name)
    THEN IF feature_group_id # "none"
         THEN [raised |-> "ValueError", resource_name |-> <<>>, get_feature |-> <<>>]
         ELSE [raised |-> "none", resource_name |-> name, get_feature |-> <<name>>]
    ELSE IF feature_group_id = "none"
    THEN [raised |-> "ValueError", resource_name |-> <<>>, get_feature |-> <<>>]
    ELSE LET path == FeaturePath(project, location, feature_group_id, name[1])
         IN  [raised |-> "none", resource_name |-> path, get_feature |-> <<path>>]

Projects == {"test-project", "other-project"}
Locations == {"us-central1", "europe-west4"}
FeatureGroupIds == {"my_fg1", "my_fg2"}
FeatureIds == {"my_fg1_f1", "my_fg1_f2"}
FeatureNames ==
    {FeatureId(f) : f \in FeatureIds}
    \cup {FeaturePath(p, l, g, f) :
             p \in Projects, l \in Locations, g \in FeatureGroupIds, f \in FeatureIds}

Feature_constructed ==
    /\ feature.op = "pending"
    /\ feature' = [feature EXCEPT
                      !.op = "constructed",
                      !.outcome = FeatureInit(feature.name, feature.feature_group_id,
                                              feature.project, feature.location)]
    /\ UNCHANGED <<heap, sess, calls, started, callerOps, ret, built, parsed, tuned, tuningJob, rest>>

NextFeature == Feature_constructed

\* A project and a location set by aiplatform.init, and one Feature to
\* construct.
InitFeature ==
    /\ heap = [l \in ListIds |-> <<>>]
    /\ \E arg \in StartArgs :
          sess = [s \in Sessions |->
                     ChatSession(s, SessionConfig(s), arg[s], heap[CallerList])]
    /\ calls = [c \in CallIds |-> NoCall]
    /\ started = 0
    /\ callerOps = 0
    /\ ret = NoRet
    /\ built = NoBuilt
    /\ parsed = NoParsed
    /\ tuned = NoTuned /\ tuningJob = NoJob /\ rest = NoRest
    /\ feature \in [op : {"pending"}, name : FeatureNames,
                    feature_group_id : FeatureGroupIds \cup {"none"},
                    project : Projects, location : Locations,
                    outcome : {FeatureInit(<<"unset">>, "none", "", "")}]

SpecFeature == InitFeature /\ [][NextFeature]_vars

\* C22: a Feature names its feature group in exactly one way. A bare ID
\* without feature_group_id, and a path with feature_group_id, raise
\* ValueError and call get_feature not at all; an ID with feature_group_id
\* resolves to the path made of the project, the location, that group and
\* the ID, a path alone to itself, and get_feature is called once, with
\* that resource name.
C22_FeatureNamedOneWay ==
    feature.op = "constructed" =>
        LET name == feature.name
            fg == feature.feature_group_id
            out == feature.outcome
        IN  /\ (Len(name) = 1 /\ fg = "none")
                  => out.raised = "ValueError" /\ out.get_feature = <<>>
            /\ (Len(name) = 8 /\ fg # "none")
                  => out.raised = "ValueError" /\ out.get_feature = <<>>
            /\ (Len(name) = 1 /\ fg # "none")
                  => /\ out.raised = "none"
                     /\ out.resource_name =
                           <<"projects", feature.project, "locations", feature.location,
                             "featureGroups", fg, "features", name[1]>>
                     /\ out.get_feature = <<out.resource_name>>
            /\ (Len(name) = 8 /\ fg = "none")
                  => /\ out.raised = "none"
                     /\ out.resource_name = name
                     /\ out.get_feature = <<name>>

\* A Feature has been constructed from an ID and its feature group, and
\* resolved to the path of the feature.
C22_Witness ==
    /\ feature.op = "constructed"
    /\ feature.name = <<"my_fg1_f1">> /\ feature.feature_group_id = "my_fg1"
    /\ feature.outcome.raised = "none"
    /\ feature.outcome.get_feature =
          <<FeaturePath("test-project", "us-central1", "my_fg1", "my_fg1_f1")>>

(* ----------------------- _LanguageModelTuningJob ----------------------- *)
MaxGets == 3

\* A task of the pipeline job: task_name, execution.schema_title and the
\* "output:model_resource_name" entry of execution.metadata ("none" when
\* the metadata has no such key).
Task(task_name, schema_title, output) ==
    [task_name |-> task_name, schema_title |-> schema_title, output |-> output]
UploadTask == Task("upload-llm-model", "system.ContainerExecution", " models/1 ")
RootTask == Task("tuning-pipeline", "system.Run", "models/2")
OtherTask == Task("export-data", "system.ContainerExecution", "none")
RootTaskNoOutput == Task("tuning-pipeline", "system.Run", "none")
TaskChoices == {UploadTask, RootTask, OtherTask, RootTaskNoOutput}
MaxTasks == 3

\* str.strip() of a model resource name.
Strip(name) == IF name = " models/1 " THEN "models/1" ELSE name

\* The tasks of a sequence that satisfy a test, in order.
RECURSIVE SelectTasks(_, _)
SelectTasks(tasks, field_value) ==
    IF tasks = <<>> THEN <<>>
    ELSE (IF tasks[1][field_value[1]] = field_value[2] THEN <<tasks[1]>> ELSE <<>>)
         \o SelectTasks(Tail(tasks), field_value)

\* _LanguageModelTuningJob.__init__ on a pipeline job that is running;
\* gets, waits and resolves count the calls of get_tuned_model, of
\* job.wait() and of type(base_model).get_tuned_model().
LanguageModelTuningJob(task_details) ==
    [state |-> "running", task_details |-> task_details, _model |-> "none",
     pc |-> "idle", gets |-> 0, waits |-> 0, resolves |-> 0,
     status |-> "none", error |-> "none", returned |-> "none"]

\* Mutant of get_tuned_model_enter: the model held is not looked at, and
\* every call waits for the job and resolves the model again.
get_tuned_model_enter_no_cache(j) ==
    [j EXCEPT !.pc = "waiting", !.gets = @ + 1, !.waits = @ + 1,
              !.status = "none", !.error = "none", !.returned = "none"]

\* get_tuned_model up to and into job.wait(): the model held is returned
\* at once; without one the call blocks in job.wait().
get_tuned_model_enter(j) ==
    IF j._model # "none"
    THEN [j EXCEPT !.gets = @ + 1, !.status = "returned", !.error = "none",
                   !.returned = j._model]
    ELSE [j EXCEPT !.pc = "waiting", !.gets = @ + 1, !.waits = @ + 1,
                   !.status = "none", !.error = "none", !.returned = "none"]

\* The task that names the model: the one "upload-llm-model" task, or
\* else the one "system.Run" task; <<>> when there is neither.
model_task_of(task_details) ==
    LET upload_model_tasks == SelectTasks(task_details, <<"task_name", "upload-llm-model">>)
        root_pipeline_tasks == SelectTasks(task_details, <<"schema_title", "system.Run">>)
    IN  IF Len(upload_model_tasks) = 1 THEN upload_model_tasks
        ELSE IF Len(root_pipeline_tasks) = 1 THEN root_pipeline_tasks
        ELSE <<>>

\* get_tuned_model from the return of job.wait() to its end; job.wait()
\* raises when the job has failed.
get_tuned_model_resume(j, model_task) ==
    LET raised(exc) == [j EXCEPT !.pc = "idle", !.status = "raised", !.error = exc]
    IN  IF j.state = "failed" THEN raised("RuntimeError")
        ELSE IF model_task = <<>> THEN raised("RuntimeError")
        ELSE IF model_task[1].output = "none" THEN raised("KeyError")
        ELSE [j EXCEPT !.pc = "idle", !.resolves = @ + 1,
                       !._model = Strip(model_task[1].output),
                       !.status = "returned",
                       !.returned = Strip(model_task[1].output)]

\* A caller calls job.get_tuned_model().
get_tuned_model_called ==
    /\ tuningJob.state # "none" /\ tuningJob.pc = "idle" /\ tuningJob.gets < MaxGets
    /\ tuningJob' = get_tuned_model_enter(tuningJob)
    /\ UNCHANGED <<heap, sess, calls, started, callerOps, ret, built, parsed, tuned, feature, rest>>

\* job.wait() returns or raises: the pipeline job has finished.
get_tuned_model_resumed ==
    /\ tuningJob.pc = "waiting" /\ tuningJob.state \in {"succeeded", "failed"}
    /\ tuningJob' = get_tuned_model_resume(tuningJob, model_task_of(tuningJob.task_details))
    /\ UNCHANGED <<heap, sess, calls, started, callerOps, ret, built, parsed, tuned, feature, rest>>

\* The pipeline job finishes, on the service.
pipeline_job_finishes(state) ==
    /\ tuningJob.state = "running"
    /\ tuningJob' = [tuningJob EXCEPT !.state = state]
    /\ UNCHANGED <<heap, sess, calls, started, callerOps, ret, built, parsed, tuned, feature, rest>>

NextJob ==
    \/ get_tuned_model_called
    \/ get_tuned_model_resumed
    \/ \E state \in {"succeeded", "failed"} : pipeline_job_finishes(state)

\* A tuning job as tune_model returns it, on a pipeline job that runs.
InitJob ==
    /\ heap = [l \in ListIds |-> <<>>]
    /\ \E arg \in StartArgs :
          sess = [s \in Sessions |->
                     ChatSession(s, SessionConfig(s), arg[s], heap[CallerList])]
    /\ calls = [c \in CallIds |-> NoCall]
    /\ started = 0
    /\ callerOps = 0
    /\ ret = NoRet
    /\ built = NoBuilt
    /\ parsed = NoParsed
    /\ tuned = NoTuned /\ feature = NoFeature /\ rest = NoRest
    /\ \E tasks \in SeqsUpTo(TaskChoices, MaxTasks) :
          tuningJob = LanguageModelTuningJob(tasks)

SpecJob == InitJob /\ [][NextJob]_vars

\* The number of tasks of the job with a given name, or schema title.
CountTasks(field_value) == Len(SelectTasks(tuningJob.task_details, field_value))

\* C23: get_tuned_model resolves the tuned model only once the pipeline job
\* has finished; a model once resolved is held, and every later call
\* returns it without waiting for the job or resolving again; on a
\* finished job with neither exactly one "upload-llm-model" task nor
\* exactly one "system.Run" task the call raises RuntimeError and holds no
\* model.
C23_TunedModelResolvedOnceAfterJob ==
    [][/\ tuningJob'.resolves > tuningJob.resolves
            => tuningJob.state = "succeeded" /\ tuningJob.pc = "waiting"
       /\ tuningJob._model # "none"
            => /\ tuningJob'._model = tuningJob._model
               /\ tuningJob'.waits = tuningJob.waits
               /\ tuningJob'.resolves = tuningJob.resolves
               /\ tuningJob'.gets > tuningJob.gets
                     => tuningJob'.status = "returned"
                        /\ tuningJob'.returned = tuningJob._model
       /\ (/\ tuningJob.pc = "waiting" /\ tuningJob'.pc = "idle"
           /\ CountTasks(<<"task_name", "upload-llm-model">>) # 1
           /\ CountTasks(<<"schema_title", "system.Run">>) # 1)
            => /\ tuningJob'.status = "raised" /\ tuningJob'.error = "RuntimeError"
               /\ tuningJob'._model = "none"]_vars

\* The model of a job with two root tasks and one upload task was resolved
\* once, from the upload task, and a third call has returned it.
C23_Witness ==
    /\ tuningJob.state = "succeeded" /\ tuningJob.gets = 3
    /\ tuningJob.waits = 1 /\ tuningJob.resolves = 1
    /\ tuningJob.status = "returned" /\ tuningJob.returned = "models/1"
    /\ CountTasks(<<"schema_title", "system.Run">>) = 2

(* ------------------ tune_model and unsupported locations ---------------- *)
\* A call of tune_model, of a text or a chat model, has ended and one of
\* its two locations is not a supported one.
UnsupportedLocation(t) ==
    /\ t.op \in {"tune_model", "chat_tune_model"}
    /\ \/ t.args.tuning_job_location \notin _TUNING_LOCATIONS
       \/ t.args.tuned_model_location \notin _TUNED_MODEL_LOCATIONS

RestStubs == {"CreateFeatureOnlineStore", "DeleteOperation"}

\* The resource a request names ("" when the field is not set) and its
\* metadata.
RestRequest(resource, metadata) == [resource |-> resource, metadata |-> metadata]
RestResources == {"", "projects/p/locations/l", "projects/p/locations/m"}
RestMetadata == {<<>>, <<"x-goog-request-params">>}
RestRequests == {RestRequest(r, m) : r \in RestResources, m \in RestMetadata}

\* The interceptors of a transport: the base class, whose pre_* and post_*
\* return what they are given, and two subclasses, one that rewrites the
\* request and the response and one whose pre_* raises.
RestInterceptors == {"base", "rewriting", "raising"}

\* The HTTP status codes of a response, and a session that fails to connect.
StatusCodes == {200, 204, 399, 400, 404, 503}
HttpOutcomes ==
    {[kind |-> "response", status_code |-> c] : c \in StatusCodes}
    \cup {[kind |-> "ConnectionError", status_code |-> 0]}

\* What a stub returns: nothing yet, the parsed message of the response or
\* None, as the post_* interceptor returned it.
NoResponse == [kind |-> "none", status_code |-> 0, rewritten |-> FALSE]
RestResponse(kind, status_code) == [kind |-> kind, status_code |-> status_code, rewritten |-> FALSE]

\* interceptor.pre_<method>(request, metadata)
pre_interceptor(interceptor, request) ==
    CASE interceptor = "base" -> [raised |-> "none", request |-> request]
      [] interceptor = "rewriting" ->
           [raised |-> "none",
            request |-> RestRequest("projects/q/locations/l",
                                    request.metadata \o <<"x-intercepted">>)]
      [] OTHER -> [raised |-> "InterceptorError", request |-> request]

\* interceptor.post_<method>(response)
post_interceptor(interceptor, response) ==
    IF interceptor = "rewriting" THEN [response EXCEPT !.rewritten = TRUE] ELSE response

\* path_template.transcode: the HTTP method and URI of a request, or a
\* ValueError when the request matches no URI template.
transcode(stub, request) ==
    IF request.resource = ""
    THEN [raised |-> "ValueError", method |-> "none", uri |-> <<>>]
    ELSE IF stub = "CreateFeatureOnlineStore"
    THEN [raised |-> "none", method |-> "post",
          uri |-> <<"/v1beta1", request.resource, "featureOnlineStores">>]
    ELSE [raised |-> "none", method |-> "delete", uri |-> <<"/v1beta1", request.resource>>]

\* A call of a stub that has not begun; log holds the interceptor calls
\* and the HTTP requests of the call, in order.
RestPending(stub, interceptor, request) ==
    [pc |-> "pending", stub |-> stub, interceptor |-> interceptor,
     request |-> request, intercepted |-> request, log |-> <<>>,
     status_code |-> 0, raised |-> "none", returned |-> NoResponse]

\* A stub's __call__ up to the HTTP request it sends: the pre_* interceptor,
\* the transcoding of the request it returned, and the request on the
\* session.
stub_call_send(r, pre, transcoded_request) ==
    IF pre.raised # "none"
    THEN [r EXCEPT !.pc = "done", !.raised = pre.raised, !.log = <<<<"pre", r.request>>>>]
    ELSE IF transcoded_request.raised # "none"
    THEN [r EXCEPT !.pc = "done", !.raised = transcoded_request.raised,
                   !.intercepted = pre.request, !.log = <<<<"pre", r.request>>>>]
    ELSE [r EXCEPT !.pc = "sent", !.intercepted = pre.request,
                   !.log = << <<"pre", r.request>>,
                              <<"http", [method |-> transcoded_request.method,
                                         uri |-> transcoded_request.uri,
                                         headers |-> pre.request.metadata
                                                     \o <<"Content-Type">>]>> >>]

\* Mutant of stub_call_receive: the post_* interceptor is called on every
\* response, before the status code is looked at.
stub_call_receive_post_first(r, outcome) ==
    IF outcome.kind = "ConnectionError"
    THEN [r EXCEPT !.pc = "done", !.raised = "ConnectionError"]
    ELSE LET resp == IF r.stub = "DeleteOperation" THEN RestResponse("None", 0)
                     ELSE RestResponse("Operation", outcome.status_code)
             posted == post_interceptor(r.interceptor, resp)
         IN  IF outcome.status_code >= 400
             THEN [r EXCEPT !.pc = "done", !.status_code = outcome.status_code,
                            !.raised = "GoogleAPICallError",
                            !.log = @ \o <<<<"post", resp>>>>]
             ELSE [r EXCEPT !.pc = "done", !.status_code = outcome.status_code,
                            !.log = @ \o <<<<"post", resp>>>>,
                            !.returned = posted]

\* A stub's __call__ from the return of the session call to its end.
stub_call_receive(r, outcome) ==
    IF outcome.kind = "ConnectionError"
    THEN [r EXCEPT !.pc = "done", !.raised = "ConnectionError"]
    ELSE IF outcome.status_code >= 400
    THEN [r EXCEPT !.pc = "done", !.status_code = outcome.status_code,
                   !.raised = "GoogleAPICallError"]
    ELSE LET resp == IF r.stub = "DeleteOperation" THEN RestResponse("None", 0)
                     ELSE RestResponse("Operation", outcome.status_code)
         IN  [r EXCEPT !.pc = "done", !.status_code = outcome.status_code,
                       !.log = @ \o <<<<"post", resp>>>>,
                       !.returned = post_interceptor(r.interceptor, resp)]

\* The stub is called.
stub_called ==
    /\ rest.pc = "pending"
    /\ LET pre == pre_interceptor(rest.interceptor, rest.request)
       IN  rest' = stub_call_send(rest, pre, transcode(rest.stub, pre.request))
    /\ UNCHANGED <<heap, sess, calls, started, callerOps, ret, built, parsed, tuned, tuningJob, feature>>

\* The session call of the stub returns a response, or raises.
stub_response(outcome) ==
    /\ rest.pc = "sent"
    /\ rest' = stub_call_receive(rest, outcome)
    /\ UNCHANGED <<heap, sess, calls, started, callerOps, ret, built, parsed, tuned, tuningJob, feature>>

NextRest ==
    \/ stub_called
    \/ \E outcome \in HttpOutcomes : stub_response(outcome)

\* A transport with its interceptor, and one call of a stub to make.
InitRest ==
    /\ heap = [l \in ListIds |-> <<>>]
    /\ \E arg \in StartArgs :
          sess = [s \in Sessions |->
                     ChatSession(s, SessionConfig(s), arg[s], heap[CallerList])]
    /\ calls = [c \in CallIds |-> NoCall]
    /\ started = 0
    /\ callerOps = 0
    /\ ret = NoRet
    /\ built = NoBuilt
    /\ parsed = NoParsed
    /\ tuned = NoTuned /\ tuningJob = NoJob /\ feature = NoFeature
    /\ \E stub \in RestStubs, interceptor \in RestInterceptors, request \in RestRequests :
          rest = RestPending(stub, interceptor, request)

SpecRest == InitRest /\ [][NextRest]_vars

\* The entries of a kind in the log of the call.
RECURSIVE LogOf(_, _)
LogOf(log, kind) ==
    IF log = <<>> THEN <<>>
    ELSE (IF log[1][1] = kind THEN <<log[1]>> ELSE <<>>) \o LogOf(Tail(log), kind)

\* C25: a REST stub calls the pre_* interceptor before it sends the HTTP
\* request, sends the request the interceptor returned, sends it once, and
\* calls the post_* interceptor only after a response with a status below
\* 400; on a status of 400 or above it raises an API error, has not called
\* the post_* interceptor and returns no response.
C25_StubStepsInOrder ==
    rest.pc \in {"sent", "done"} =>
        /\ Len(LogOf(rest.log, "http")) <= 1
        /\ rest.log # <<>> /\ rest.log[1] = <<"pre", rest.request>>
        /\ Len(LogOf(rest.log, "pre")) = 1
        /\ LogOf(rest.log, "http") # <<>> =>
              /\ rest.log[2][1] = "http"
              /\ rest.log[2][2].uri = transcode(rest.stub, rest.intercepted).uri
              /\ rest.log[2][2].headers = rest.intercepted.metadata \o <<"Content-Type">>
              /\ rest.intercepted = pre_interceptor(rest.interceptor, rest.request).request
        /\ LogOf(rest.log, "post") # <<>> =>
              /\ Len(rest.log) = 3 /\ rest.log[3][1] = "post"
              /\ rest.pc = "done" /\ rest.status_code \in 1..399
        /\ (rest.pc = "done" /\ rest.status_code # 0) =>
              Len(LogOf(rest.log, "http")) = 1
        /\ (rest.pc = "done" /\ rest.status_code >= 400) =>
              /\ rest.raised = "GoogleAPICallError"
              /\ LogOf(rest.log, "post") = <<>>
              /\ rest.returned = NoResponse

\* A call through a rewriting interceptor was answered with status 404: the
\* rewritten request was sent once and the call raised.
C25_Witness ==
    /\ rest.pc = "done" /\ rest.interceptor = "rewriting"
    /\ rest.status_code = 404 /\ rest.raised = "GoogleAPICallError"
    /\ Len(rest.log) = 2
    /\ rest.log[2][2].uri[2] = "projects/q/locations/l"

(* ------------------------ streams start lazily ------------------------- *)
\* C26: calling send_message_streaming, or its async variant, builds no
\* request, makes no remote call and changes no turn list; the request is
\* built, and the one remote call made, when the stream is first iterated,
\* from the turns message_history holds at that moment.
C26_StreamStartsAtFirstIteration ==
    [][\A c \in CallIds :
         /\ (calls[c].kind = "none" /\ calls'[c].kind \in {"stream", "astream"})
               => /\ calls'[c].pc = "created"
                  /\ calls'[c].request = NoRequest /\ calls'[c].predicts = 0
                  /\ heap' = heap /\ sess' = sess
         /\ (calls[c].kind \in {"stream", "astream"} /\ calls[c].pc = "created")
               => /\ calls[c].request = NoRequest /\ calls[c].predicts = 0
                  /\ calls'[c].pc \in {"yielded", "awaiting"}
                        => /\ calls'[c].predicts = 1
                           /\ calls'[c].request =
                                 prepare_request(sess[calls[c].sess],
                                                 History(calls[c].sess),
                                                 MessageOf(c), calls[c].args)]_vars

\* The stream of call 1 has been iterated after call 2, made later on the
\* same session, had committed: the request of call 1 holds the turn of
\* call 2, which the session did not hold when call 1 was made.
C26_Witness ==
    /\ calls[1].kind \in {"stream", "astream"}
    /\ calls[1].pc \in {"yielded", "awaiting"}
    /\ \E i \in 1..Len(calls[1].request.instance["messages"]) :
          calls[1].request.instance["messages"][i].content = MessageOf(2)

(* ------------------- overlapping calls on one session ------------------ *)
\* The request holds a turn of call n.
RequestHolds(request, n) ==
    /\ request.raised = "none"
    /\ \E i \in 1..Len(request.instance["messages"]) :
          request.instance["messages"][i].content = MessageOf(n)

\* Call c is under way and has built its request.
RequestBuilt(c) == calls[c].kind # "none" /\ calls[c].request.raised = "none"

\* The exchange of call c is in the turns: its USER turn, with a MODEL turn
\* right after it.
ExchangeAt(history, c, i) ==
    /\ i \in 1..(Len(history) - 1)
    /\ history[i] = ChatMessage(MessageOf(c), USER_AUTHOR)
    /\ history[i + 1].author = MODEL_AUTHOR

\* Call d, under way, overlapped with call c, which has committed since:
\* the request of d was built before the exchange of c was appended.
OverlappedBy(d, c) ==
    /\ c # d /\ RequestBuilt(d) /\ ~RequestHolds(calls[d].request, c)
    /\ \E i \in 1..Len(History(calls[d].sess)) :
          History(calls[d].sess)[i] = ChatMessage(MessageOf(c), USER_AUTHOR)

\* C27: when two async sends, or two streams, overlap on one session (the
\* requests of both are built before either commits), the request of each
\* holds no turn of the other, and when both complete both exchanges are in
\* the history, each as a USER turn with its MODEL turn right after it, in
\* the order in which the calls completed.
C27_OverlappingCallsCommitWhole ==
    [][\A c, d \in CallIds :
         /\ (c # d /\ RequestBuilt(c) /\ RequestBuilt(d)
             /\ calls[c].sess = calls[d].sess)
               => /\ ~RequestHolds(calls[c].request, d)
                  /\ ~RequestHolds(calls[d].request, c)
         /\ (/\ OverlappedBy(d, c)
             /\ ret'.seq = d /\ ret'.status \in {"returned", "exhausted"})
               => LET s == calls[d].sess
                      before == History(s)
                      after == heap'[message_history(sess[s])]
                  IN  /\ Len(after) = Len(before) + 2
                      /\ SubSeq(after, 1, Len(before)) = before
                      /\ ExchangeAt(after, d, Len(before) + 1)
                      /\ \E i \in 1..Len(before) : ExchangeAt(before, c, i)]_vars

\* Two async sends overlap on session A: both had built their requests
\* when call 2 completed, and call 1 is still awaiting its response; the
\* history ends with the exchange of call 2, which the request of call 1
\* does not hold.
C27_Witness ==
    /\ calls[1].kind = "async" /\ calls[1].pc = "awaiting" /\ calls[1].sess = "A"
    /\ OverlappedBy(1, 2)
    /\ ret.seq = 2 /\ ret.status = "returned" /\ ret.call.kind = "async"
    /\ ret.call.sess = "A"
    /\ ExchangeAt(History("A"), 2, Len(History("A")) - 1)

(* --------------------- overrides of a single call ---------------------- *)
\* The session as start_chat made it: the defaults, context and examples
\* it was given.
AsStarted(s) ==
    [sess[s] EXCEPT !.context = SessionConfig(s).context,
                    !.examples = SessionConfig(s).examples,
                    !.max_output_tokens = SessionConfig(s).max_output_tokens,
                    !.temperature = SessionConfig(s).temperature,
                    !.top_k = SessionConfig(s).top_k,
                    !.top_p = SessionConfig(s).top_p,
                    !.stop_sequences = SessionConfig(s).stop_sequences]

\* C28: no send, with or without values passed to the call, changes the
\* defaults, the context or the examples of a session; the values passed
\* to a call go into the request of that call only, and a request built
\* by a later call without them has the parameters, context and examples
\* the session was started with.
C28_OverridesLastOneCall ==
    [][/\ sess' = sess
       /\ \A s \in Sessions : sess[s] = AsStarted(s)
       /\ \A c \in CallIds :
            (calls[c].request = NoRequest /\ calls'[c].request.raised = "none")
               => LET s == calls'[c].sess
                  IN  /\ calls'[c].request.parameters =
                            prediction_parameters(AsStarted(s), calls'[c].args)
                      /\ calls'[c].request.instance =
                            prediction_instance(AsStarted(s), History(s), MessageOf(c))
                      /\ calls'[c].args = NoArgs
                            => calls'[c].request.parameters =
                                  prediction_parameters(AsStarted(s), NoArgs)]_vars

\* On session A, started with temperature 1.0 and top_k 3, call 1 passed
\* temperature 0 and its request holds 0.0; the request of call 2, which
\* passed nothing, holds 1.0 and top_k 3.
C28_Witness ==
    /\ calls[1].kind = "async" /\ calls[1].sess = "A"
    /\ calls[1].args.temperature = PyInt(0)
    /\ calls[1].request.raised = "none"
    /\ calls[1].request.parameters["temperature"] = PyFloat(0)
    /\ calls[2].kind \in {"async", "stream", "astream"} /\ calls[2].sess = "A"
    /\ calls[2].args = NoArgs
    /\ calls[2].request.raised = "none"
    /\ calls[2].request.parameters["temperature"] = PyFloat(1)
    /\ calls[2].request.parameters["topK"] = PyInt(3)
    /\ sess["A"].temperature = PyFloat(1)

(* ------------------- responses that cannot be parsed ------------------- *)
\* What endpoint.predict does here: it raises, or returns a response that
\* can be parsed, or one with no candidates, or one with a candidate and no
\* safetyAttributes entry for it.
UnparsedOutcomes ==
    {TransportError, Response(<<OneCandidate>>), Response(<<NoCandidates>>),
     Response(<<MissingSafety>>)}

NextUnparsed ==
    \E c \in CallIds, s \in Sessions, a \in ArgChoices, o \in UnparsedOutcomes :
       send_message(c, s, a, o)

SpecUnparsed == Init /\ [][NextUnparsed]_vars

\* The step is a send_message whose remote call returned and whose
\* response the parser raised on.
ParseFailed ==
    /\ ret'.seq = started' /\ started' = started + 1
    /\ ret'.call.kind = "sync" /\ ret'.status = "raised"
    /\ ret'.call.predicts = 1 /\ ret'.call.remote_error = "none"

\* C29: a send_message whose remote call succeeds with a response that
\* cannot be parsed (no candidates, or no safetyAttributes entry for a
\* candidate) raises and leaves every message history as it was; a
\* send_message that returns has parsed at least one candidate.
C29_UnparsedResponseLeavesHistory ==
    [][/\ ParseFailed => heap' = heap /\ ret'.error \in {"IndexError", "KeyError"}
       /\ (ret'.seq = started' /\ started' = started + 1 /\ ret'.status = "returned")
             => Len(ret'.response.candidates) >= 1]_vars

\* The second send_message on a session failed in the parser, and the
\* history still ends with the exchange of the first.
C29_Witness ==
    /\ ret.seq = 2 /\ ret.call.kind = "sync" /\ ret.status = "raised"
    /\ ret.error = "IndexError"
    /\ ret.call.predicts = 1 /\ ret.call.remote_error = "none"
    /\ LET h == History(ret.call.sess)
       IN  /\ Len(h) >= 2
           /\ ExchangeAt(h, 1, Len(h) - 1)

(* --------------------------- blocked responses -------------------------- *)
\* A response whose one candidate is blocked and has a text of its own.
BlockedWithText == Prediction(<< <<"b">> >>, <<BlockedSafety>>, NoneList)

\* What endpoint.predict returns here: an unblocked response, a blocked one
\* with an empty text, a blocked one with a text.
BlockedOutcomes ==
    {Response(<<OneCandidate>>), Response(<<BlockedCandidate>>),
     Response(<<BlockedWithText>>)}

\* send_message and send_message_async answered with such responses.
NextBlocked ==
    \/ \E c \in CallIds, s \in Sessions, a \in ArgChoices, o \in BlockedOutcomes :
          send_message(c, s, a, o)
    \/ \E c \in CallIds, s \in Sessions, a \in ArgChoices :
          send_message_async(c, s, a)
    \/ \E c \in CallIds : async_start(c)
    \/ \E c \in CallIds, o \in BlockedOutcomes : async_resolve(c, o)

SpecBlocked == Init /\ [][NextBlocked]_vars

\* C30: a send_message that returns a response whose primary candidate is
\* blocked has appended the message as a USER turn and the text of that
\* candidate, empty or not, as a MODEL turn, as for an unblocked response;
\* and a request built later holds every turn of the history, those of
\* blocked exchanges included.
C30_BlockedResponseIsCommitted ==
    [][/\ (/\ ret'.seq # 0 /\ ret'.status = "returned"
           /\ ret'.call.kind \in {"sync", "async"}
           /\ ret'.response.is_blocked)
             => LET s == ret'.call.sess
                    before == History(s)
                    after == heap'[message_history(sess[s])]
                IN  /\ ret'.response.candidates[1].is_blocked
                    /\ after = before
                                  \o <<ChatMessage(MessageOf(ret'.seq), USER_AUTHOR),
                                       ChatMessage(ret'.response.candidates[1].text,
                                                   MODEL_AUTHOR)>>
       /\ \A c \in CallIds :
            (calls[c].request = NoRequest /\ calls'[c].request.raised = "none")
               => LET h == History(calls'[c].sess)
                      messages == calls'[c].request.instance["messages"]
                  IN  /\ Len(messages) = Len(h) + 1
                      /\ \A i \in 1..Len(h) :
                            /\ messages[i].author = h[i].author
                            /\ messages[i].content = h[i].content]_vars

\* Call 1 was answered with the blocked response that has a text, and the
\* request of call 2 holds its USER turn and, right after it, the MODEL
\* turn with that text.
C30_Witness ==
    /\ calls[2].kind = "async" /\ calls[2].pc = "awaiting"
    /\ LET messages == calls[2].request.instance["messages"]
       IN  \E i \in 1..(Len(messages) - 1) :
              /\ messages[i] = [author |-> USER_AUTHOR, content |-> MessageOf(1)]
              /\ messages[i + 1] = [author |-> MODEL_AUTHOR, content |-> <<"b">>]

====
